---- MODULE Spec2Model ----
(***************************************************************************)
(* The reactive state machine of the ittybitty terminal torrent client:    *)
(* input translation (app/input.rs), the reducer (app/reducer.rs), the     *)
(* effect runner (app/effects.rs), the application state (app/state.rs),   *)
(* the helpers of app/util.rs and the main loop (main.rs, events.rs).      *)
(*                                                                         *)
(* Text is a sequence of one-character strings, so cursor arithmetic,      *)
(* trimming and prefix tests are computed, not assumed.  An Instant is     *)
(* represented by its age in milliseconds relative to "now" (saturating    *)
(* at AgeCap, every age above DebounceMs behaving alike); NoInstant is     *)
(* Option::None.  The engine (librqbit) and the filesystem are external:   *)
(* every call to them may fail, and what they report is chosen from the    *)
(* bounded sets of the environment record env.                             *)
(***************************************************************************)
EXTENDS Integers, Sequences, FiniteSets, TLC

VARIABLES
  app,       \* the App struct (state.rs:84-108), one record field per struct field
  queue,     \* the VecDeque<Action> local to handle_event (reducer.rs:16)
  pc,        \* position of the main loop: "start", "idle", "drain", "effect", "done"
  inflight,  \* the Effect being awaited by run_effect, or NoEffect
  chan,      \* what became ready for select! while the loop was busy, in order of
             \* arrival: the events in the unbounded mpsc channel filled by the
             \* input thread (events.rs) and, where followed, the timer's expiry
  engine,    \* the engine session: tracked torrents and the id counter
  dirs,      \* the filesystem: the set of existing directory paths
  calls,     \* log: engine and filesystem calls made by the effect of this drain
  trace,     \* log: the actions applied so far in the current drain
  hist,      \* log: the last event received (kept only when env.track_keys)
  env        \* the bounded environment (fixed by Init, never changed)

vars == <<app, queue, pc, inflight, chan, engine, dirs, calls, trace, hist, env>>

----------------------------------------------------------------------------
(* Bounds of the model (not program constants).                            *)

MaxTorrents == 2     \* the engine never hands out an id above this
MaxEdit == 2         \* the operator edits (types into, deletes from) buffers of at most this length
MaxChan == 1         \* events buffered in the channel while an effect is in flight
MaxHelpScroll == 2   \* the operator stops scrolling the help down at this offset
MaxDirs == 4         \* directories the filesystem can hold
AgeCap == 250        \* ages of an Instant saturate here (anything above DebounceMs)

(* Program constants.                                                      *)
DebounceMs == 200            \* state.rs:270  Duration::from_millis(200)
ProbeAttempts == 3           \* effects.rs:117 for attempt in 0..3
ProbeDelayMs == 500          \* effects.rs:137 sleep 500 ms
ShortHashLen == 8            \* effects.rs:157 info_hash.chars().take(8)
TickMs == 500                \* main.rs:41 interval(500 ms)
NoInstant == -1              \* Option<Instant>::None (state.rs:119)

----------------------------------------------------------------------------
(* Generic helpers on sequences.                                           *)

When(cond, S) == IF cond THEN S ELSE {}
Min(a, b) == IF a < b THEN a ELSE b
Max(a, b) == IF a > b THEN a ELSE b
Last(s) == s[Len(s)]
Range(s) == {s[i] : i \in 1..Len(s)}
IsPrefix(p, s) == Len(p) <= Len(s) /\ SubSeq(s, 1, Len(p)) = p

(* char::is_whitespace / is_control over the characters of the model.      *)
WhiteChars == {" ", "\t"}
is_whitespace(c) == c \in WhiteChars

RECURSIVE TrimStart(_)
TrimStart(s) == IF s # <<>> /\ is_whitespace(Head(s)) THEN TrimStart(Tail(s)) ELSE s

RECURSIVE TrimEnd(_)
TrimEnd(s) ==
  IF s # <<>> /\ is_whitespace(Last(s)) THEN TrimEnd(SubSeq(s, 1, Len(s) - 1)) ELSE s

(* str::trim *)
Trim(s) == TrimEnd(TrimStart(s))

(* Instants as ages: every stored Instant grows older when time passes.    *)
Aged(t, d) == IF t = NoInstant THEN NoInstant ELSE Min(t + d, AgeCap)

----------------------------------------------------------------------------
(* Text literals of the program and of the environment.                    *)

MagnetScheme == <<"m","a","g","n","e","t",":">>       \* util.rs:15
HttpScheme   == <<"h","t","t","p",":","/","/">>       \* util.rs:16
HttpsScheme  == <<"h","t","t","p","s",":","/","/">>   \* util.rs:17
FallbackName == <<"d","o","w","n","l","o","a","d">>   \* util.rs:81

(* Error texts (anyhow messages), named by the place that raises them.     *)
ErrEmptyMagnet   == "Magnet cannot be empty"                                         \* reducer.rs:181
ErrBadInput      == "Input must be a magnet, URL, or an existing .torrent file path" \* util.rs:26
ErrReadFile      == "failed to read .torrent file"                                   \* util.rs:23
ErrMissingInput  == "missing pending torrent input"                                  \* reducer.rs:196
ErrListing       == "error listing files"                                            \* effects.rs:68,139
ErrDuplicate     == "Torrent already added; duplicate locations are not supported"   \* effects.rs:78
ErrSameDest      == "Torrent already added for this download directory"              \* effects.rs:153
ErrDestExists    == "Destination folder already exists"                              \* effects.rs:161
ErrCreateDir     == "failed to create download folder"                               \* effects.rs:164
ErrNoFiles       == "No files selected"                                              \* effects.rs:181
ErrAdding        == "error adding torrent"                                           \* effects.rs:198
ErrNotAdded      == "torrent was not added"                                          \* effects.rs:200
ErrVerifying     == "error verifying file selection"                                 \* effects.rs:206
ErrMissingFiles  == "torrent details missing files"                                  \* effects.rs:209
ErrNotHonored    == "File selection was not honored; torrent was removed"            \* effects.rs:218
ErrStarting      == "error starting torrent"                                         \* effects.rs:224
ErrResuming      == "error resuming torrent"                                         \* effects.rs:242
ErrPausing       == "error pausing torrent"                                          \* effects.rs:249
ErrStopping      == "error stopping torrent"                                         \* effects.rs:266
ErrDeleting      == "error deleting torrent and files"                               \* effects.rs:278

(* The environment's torrents: what a probe of each source reports.        *)
(* name = <<>> stands for a response without a name.                       *)
HashA == <<"a","1","b","2","c","3","d","4","e","5">>
HashB == <<"b","9">>
HashC == <<"c","0","f","f","e","e","0","0","1">>
SourceA == MagnetScheme \o <<"A">>
SourceB == MagnetScheme \o <<"B">>
SourceC == MagnetScheme \o <<"C">>
TorrentFile == <<"t">>        \* a .torrent file in the working directory
NameA == <<"M","y","S","h","o","w">>
FileEntryOf(name, included) == [name |-> name, included |-> included]
MetaA == [info_hash |-> HashA, name |-> NameA,
          files |-> << FileEntryOf(<<"x">>, TRUE), FileEntryOf(<<"y">>, TRUE),
                       FileEntryOf(<<"z">>, TRUE) >>]
MetaB == [info_hash |-> HashB, name |-> <<" ">>,
          files |-> << FileEntryOf(<<" ","a","/","b">>, TRUE), FileEntryOf(<<"c">>, FALSE) >>]
MetaC == [info_hash |-> HashC, name |-> <<>>, files |-> <<>>]
NoMeta == [info_hash |-> <<>>, name |-> <<>>, files |-> <<>>]

(* The metadata behind an AddTorrent value (a URL or the bytes of a file). *)
MetaOf(add) ==
  IF add.kind = "Url" /\ add.data = SourceA THEN MetaA
  ELSE IF add.kind = "Url" /\ add.data = SourceB THEN MetaB
  ELSE IF add.kind = "Url" /\ add.data = SourceC THEN MetaC
  ELSE IF add.kind = "Bytes" /\ add.data = TorrentFile THEN MetaA
  ELSE NoMeta

(* The default download directory (main.rs:21, default_download_dir).      *)
DownloadDir == <<"/","d">>

----------------------------------------------------------------------------
(* Torrent statistics as far as the program reads them (state.rs:315-334,  *)
(* effects.rs:230-257): the state, the finished flag, and whether          *)
(* total_bytes > 0 /\ progress_bytes >= total_bytes ("complete").          *)

Stats(state, finished, complete) == [state |-> state, finished |-> finished, complete |-> complete]
NoStats == Stats("None", FALSE, FALSE)          \* stats: None
AllStats ==
  {NoStats} \cup {Stats(s, f, c) : s \in {"Initializing", "Live", "Paused", "Error"},
                                   f \in BOOLEAN, c \in BOOLEAN}

(* state.rs:51-58 *)
FILTERS == <<"All", "Downloading", "Seeding", "Paused", "Stopped", "Error">>

----------------------------------------------------------------------------
(* Option<T>: a record with a presence flag.                               *)

Some(x) == [some |-> TRUE, v |-> x]
NoneStr == [some |-> FALSE, v |-> ""]         \* Option<String> of a message
NoneText == [some |-> FALSE, v |-> <<>>]      \* Option<String> of a text
EmptyPicker == [magnet |-> <<>>, output_folder |-> <<>>, files |-> <<>>, cursor |-> 0]
NonePicker == [some |-> FALSE, v |-> EmptyPicker]

(* App::new (state.rs:111-137).  name and length of rows and file entries  *)
(* are display data the reducer never reads; rows keep id, info_hash,      *)
(* output_folder and stats, file entries keep name and included.           *)
NewApp ==
  [ torrents |-> <<>>, selected |-> 0, mode |-> "Normal", input |-> <<>>,
    input_cursor |-> 0, last_char_at |-> NoInstant, download_dir |-> DownloadDir,
    status |-> "Ready", last_error |-> NoneStr, file_picker |-> NonePicker,
    session_stats |-> FALSE, view |-> "Torrents", confirm_delete |-> FALSE,
    delete_choice |-> FALSE, confirm_quit |-> FALSE, quit_choice |-> FALSE,
    focus |-> "Torrents", filter_index |-> 0, pending_add_input |-> NoneText,
    show_help |-> FALSE, help_scroll |-> 0, dialog |-> "None" ]

(* state.rs:163-165 *)
has_selected_torrent(a) == a.selected < Len(a.torrents)
selected_torrent(a) == a.torrents[a.selected + 1]

(* state.rs:203-208 *)
selected_filter(a) ==
  IF a.filter_index < Len(FILTERS) THEN FILTERS[a.filter_index + 1] ELSE "All"

(* state.rs:315-334 *)
filter_match(a, t) ==
  IF t.stats.state = "None" THEN selected_filter(a) \in {"All", "Stopped"}
  ELSE LET stats == t.stats
           is_seeding == stats.finished \/ (stats.complete /\ stats.state = "Live")
       IN CASE selected_filter(a) = "All" -> TRUE
            [] selected_filter(a) = "Downloading" -> stats.state = "Live" /\ ~stats.finished
            [] selected_filter(a) = "Seeding" -> is_seeding
            [] selected_filter(a) = "Paused" -> stats.state = "Paused"
            [] selected_filter(a) = "Stopped" -> FALSE
            [] selected_filter(a) = "Error" -> stats.state = "Error"

(* state.rs:210-222: the indices (0-based) of the rows passing the filter, ascending. *)
filtered_indices(a) ==
  SelectSeq([i \in 1..Len(a.torrents) |-> i - 1], LAMBDA i : filter_match(a, a.torrents[i + 1]))

(* The error raised over whatever the wizard had built.                    *)
set_error_keeps_wizard(a, err) ==
  [a EXCEPT !.last_error = Some(err), !.status = "Error", !.mode = "Normal",
            !.confirm_delete = FALSE, !.confirm_quit = FALSE,
            !.show_help = FALSE, !.help_scroll = 0,
            !.input = <<>>, !.input_cursor = 0, !.last_char_at = NoInstant,
            !.dialog = "Error"]

(* state.rs:228-242 *)
set_error(a, err) ==
  [a EXCEPT !.last_error = Some(err), !.status = "Error", !.mode = "Normal",
            !.file_picker = NonePicker, !.confirm_delete = FALSE, !.confirm_quit = FALSE,
            !.show_help = FALSE, !.help_scroll = 0, !.pending_add_input = NoneText,
            !.input = <<>>, !.input_cursor = 0, !.last_char_at = NoInstant,
            !.dialog = "Error"]

(* The error forgotten, the dialog left standing.                          *)
clear_error_keeps_dialog(a) ==
  [a EXCEPT !.last_error = NoneStr, !.status = "Ready"]

(* state.rs:244-248 *)
clear_error(a) ==
  [a EXCEPT !.last_error = NoneStr, !.status = "Ready", !.dialog = "None"]

(* state.rs:254-262 *)
has_same_destination(a, info_hash, output_folder) ==
  \E i \in 1..Len(a.torrents) :
     /\ a.torrents[i].info_hash = info_hash
     /\ a.torrents[i].output_folder = output_folder

(* No debounce: every character restarts the window and passes.           *)
should_ignore_paste_char_never(a) ==
  [app |-> [a EXCEPT !.last_char_at = 0], ignore |-> FALSE]

(* state.rs:264-278.  The caller has aged last_char_at to "now", so        *)
(* now.duration_since(last) is the stored age.  Returns the new state and  *)
(* the verdict.                                                            *)
should_ignore_paste_char(a) ==
  IF a.dialog # "None" THEN [app |-> a, ignore |-> FALSE]
  ELSE IF a.last_char_at # NoInstant /\ a.last_char_at <= DebounceMs
       THEN [app |-> [a EXCEPT !.last_char_at = 0, !.status = "Paste ignored"],
             ignore |-> TRUE]
       ELSE [app |-> [a EXCEPT !.last_char_at = 0], ignore |-> FALSE]

(* Width in bytes of a character in UTF-8; the model's only wide character is "é". *)
Utf8Len(c) == IF c = "é" THEN 2 ELSE 1

RECURSIVE ByteLen(_)
ByteLen(s) == IF s = <<>> THEN 0 ELSE Utf8Len(Head(s)) + ByteLen(Tail(s))

(* util.rs:96-108: the byte offset of the cursor-th character, or the byte *)
(* length when the cursor is at or past the end.                           *)
cursor_to_byte_index(s, cursor) ==
  IF cursor = 0 THEN 0
  ELSE IF cursor < Len(s) THEN ByteLen(SubSeq(s, 1, cursor))
  ELSE ByteLen(s)

(* The number of characters before byte offset idx (idx is a character     *)
(* boundary; String::insert and replace_range panic otherwise).            *)
CharsBefore(s, idx) == CHOOSE k \in 0..Len(s) : ByteLen(SubSeq(s, 1, k)) = idx

(* String::insert(idx, c) / String::replace_range(start..end, ""), by byte offsets. *)
InsertAt(s, idx, c) ==
  SubSeq(s, 1, CharsBefore(s, idx)) \o <<c>> \o SubSeq(s, CharsBefore(s, idx) + 1, Len(s))
RemoveRange(s, start, end) ==
  SubSeq(s, 1, CharsBefore(s, start)) \o SubSeq(s, CharsBefore(s, end) + 1, Len(s))

(* state.rs:280-284 *)
insert_char(a, c) ==
  [a EXCEPT !.input = InsertAt(a.input, cursor_to_byte_index(a.input, a.input_cursor), c),
            !.input_cursor = a.input_cursor + 1]

(* state.rs:286-294 *)
backspace(a) ==
  IF a.input_cursor = 0 THEN a
  ELSE [a EXCEPT !.input = RemoveRange(a.input,
                              cursor_to_byte_index(a.input, a.input_cursor - 1),
                              cursor_to_byte_index(a.input, a.input_cursor)),
                 !.input_cursor = a.input_cursor - 1]

(* state.rs:296-304 *)
delete(a) ==
  IF a.input_cursor >= Len(a.input) THEN a
  ELSE [a EXCEPT !.input = RemoveRange(a.input,
                              cursor_to_byte_index(a.input, a.input_cursor),
                              cursor_to_byte_index(a.input, a.input_cursor + 1))]

(* state.rs:306-308 *)
move_cursor_left(a) == [a EXCEPT !.input_cursor = Max(a.input_cursor - 1, 0)]

(* The cursor moved right without a look at the length.                    *)
move_cursor_right_unclamped(a) == [a EXCEPT !.input_cursor = a.input_cursor + 1]

(* state.rs:310-313 *)
move_cursor_right(a) == [a EXCEPT !.input_cursor = Min(a.input_cursor + 1, Len(a.input))]

(* The selection left where it was, whatever the filter says.              *)
ensure_selection_unchecked(a) ==
  IF a.torrents = <<>> THEN [a EXCEPT !.selected = 0] ELSE a

(* state.rs:336-355 *)
ensure_selection_for_filter(a) ==
  IF a.torrents = <<>> THEN [a EXCEPT !.selected = 0]
  ELSE IF a.selected < Len(a.torrents) /\ filter_match(a, a.torrents[a.selected + 1]) THEN a
  ELSE IF filtered_indices(a) # <<>> THEN [a EXCEPT !.selected = Head(filtered_indices(a))]
  ELSE [a EXCEPT !.selected = 0]

(* slice::iter().position(|&idx| idx == selected).unwrap_or(0) *)
PositionOr0(indices, x) ==
  IF \E i \in 1..Len(indices) : indices[i] = x
  THEN (CHOOSE i \in 1..Len(indices) :
          indices[i] = x /\ \A j \in 1..(i - 1) : indices[j] # x) - 1
  ELSE 0

(* state.rs:357-368 *)
move_selection(a, delta) ==
  LET indices == filtered_indices(a)
      current_pos == PositionOr0(indices, a.selected)
      next_pos == Max(0, Min(current_pos + delta, Len(indices) - 1))
  IN IF indices = <<>> THEN a ELSE [a EXCEPT !.selected = indices[next_pos + 1]]

----------------------------------------------------------------------------
(* app/util.rs                                                             *)

Ok(v) == [ok |-> TRUE, v |-> v, err |-> ""]
NoAdd == [kind |-> "None", data |-> <<>>]
Err(e) == [ok |-> FALSE, v |-> NoAdd, err |-> e]

(* Path::exists over the directories fs and the regular files of the       *)
(* environment; std::fs::read succeeds on a regular file, not on a         *)
(* directory.                                                              *)
PathExists(path, fs, files) == path \in fs \/ path \in files

(* util.rs:9-29 *)
build_add_torrent(input, fs, files) ==
  LET trimmed == Trim(input)
      cleaned == SelectSeq(trimmed, LAMBDA c : ~is_whitespace(c))
  IN IF \/ IsPrefix(MagnetScheme, cleaned)
        \/ IsPrefix(HttpScheme, cleaned)
        \/ IsPrefix(HttpsScheme, cleaned)
     THEN Ok([kind |-> "Url", data |-> cleaned])
     ELSE IF PathExists(trimmed, fs, files)
          THEN IF trimmed \in files
               THEN Ok([kind |-> "Bytes", data |-> trimmed])
               ELSE Err(ErrReadFile)
          ELSE Err(ErrBadInput)

(* util.rs:31-53: the response's files (none when absent), cursor 0.       *)
build_picker(magnet, output_folder, response) ==
  [magnet |-> magnet, output_folder |-> output_folder,
   files |-> [i \in 1..Len(response.files) |->
                FileEntryOf(response.files[i].name, response.files[i].included)],
   cursor |-> 0]

(* util.rs:55-68: a listed torrent becomes a row.                          *)
to_row(details) ==
  [id |-> details.id, info_hash |-> details.info_hash,
   output_folder |-> details.output_folder, stats |-> details.stats]

(* util.rs:70-82 *)
derive_folder_suffix(response) ==
  IF Trim(response.name) # <<>> THEN Trim(response.name)
  ELSE IF response.files # <<>> /\ Trim(Head(response.files).name) # <<>>
       THEN Trim(Head(response.files).name)
       ELSE FallbackName

(* util.rs:84-94 *)
sanitize_path_component(input) ==
  Trim([i \in 1..Len(input) |-> IF input[i] \in {"/", "\\"} THEN "-" ELSE input[i]])

(* PathBuf::join with a relative single component. *)
PathJoin(base, name) ==
  IF base = <<>> THEN name
  ELSE IF Last(base) = "/" THEN base \o name
  ELSE base \o <<"/">> \o name

(* The proper ancestors of a path that create_dir_all creates with it.     *)
Ancestors(path) ==
  {SubSeq(path, 1, i - 1) : i \in {j \in 2..Len(path) : path[j] = "/"}}

(* What a failing create_dir_all may leave behind: it creates the missing  *)
(* ancestors from the top down and fails at one of them or at the path.    *)
CreatedBeforeFailure(path, fs) ==
  {{q \in Ancestors(path) \ fs : Len(q) <= n} : n \in 0..(Len(path) - 1)}

----------------------------------------------------------------------------
(* Actions (app/action.rs, as constructed in input.rs and reducer.rs) and  *)
(* effects (app/effect.rs).                                                *)

Act(type) == [type |-> type]
ActArg(type, arg) == [type |-> type, arg |-> arg]
RunEffect(effect) == [type |-> "RunEffect", effect |-> effect]
Eff(kind) == [kind |-> kind]
NoEffect == Eff("None")
EffPreflightAdd(magnet) == [kind |-> "PreflightAdd", magnet |-> magnet]
EffStartFilePicker(magnet, output_folder) ==
  [kind |-> "StartFilePicker", magnet |-> magnet, output_folder |-> output_folder]
EffStartDownload(magnet, output_folder, only_files) ==
  [kind |-> "StartDownload", magnet |-> magnet, output_folder |-> output_folder,
   only_files |-> only_files]

----------------------------------------------------------------------------
(* Input events (crossterm::event::Event).                                 *)

Key(kind, t, c) == [type |-> "Key", kind |-> kind, code |-> [t |-> t, c |-> c]]
Press(t) == Key("Press", t, "")
PressChar(c) == Key("Press", "Char", c)
Paste(text) == [type |-> "Paste", text |-> text]
Resize == [type |-> "Resize"]
OtherEvent == [type |-> "Focus"]

IsChar(code, c) == code.t = "Char" /\ code.c = c
IsCharIn(code, cs) == code.t = "Char" /\ code.c \in cs

----------------------------------------------------------------------------
(* app/input.rs: the input translator.  Both operators return the state    *)
(* as the translation leaves it and the list of actions.                   *)

Translated(a, actions) == [app |-> a, actions |-> actions]

(* input.rs:42-51 *)
HelpKeys(code) ==
  IF IsCharIn(code, {"?", "x"}) \/ code.t = "Esc" THEN <<Act("HelpClose")>>
  ELSE IF code.t = "Up" \/ IsChar(code, "k") THEN <<ActArg("HelpScroll", -1)>>
  ELSE IF code.t = "Down" \/ IsChar(code, "j") THEN <<ActArg("HelpScroll", 1)>>
  ELSE <<>>

(* input.rs:52-57 *)
ErrorKeys(code) ==
  IF IsChar(code, "x") \/ code.t = "Esc" THEN <<Act("ErrorClear")>> ELSE <<>>

(* input.rs:58-83: the two confirmation dialogs share their key table.     *)
ConfirmKeys(code, prefix) ==
  IF code.t = "Left" \/ IsChar(code, "h") THEN <<ActArg(prefix \o "Select", TRUE)>>
  ELSE IF code.t = "Right" \/ IsChar(code, "l") THEN <<ActArg(prefix \o "Select", FALSE)>>
  ELSE IF IsCharIn(code, {"y", "Y"}) THEN <<ActArg(prefix \o "Select", TRUE)>>
  ELSE IF IsCharIn(code, {"n", "N"}) THEN <<ActArg(prefix \o "Select", FALSE)>>
  ELSE IF code.t = "Esc" THEN <<Act(prefix \o "Cancel")>>
  ELSE IF code.t = "Enter" THEN <<Act(prefix \o "Confirm")>>
  ELSE <<>>

(* input.rs:84-114 *)
NormalKeys(a, code) ==
  IF IsChar(code, "f") THEN <<ActArg("ViewSet", "Torrents")>>
  ELSE IF IsChar(code, "i") THEN <<ActArg("ViewSet", "Info")>>
  ELSE IF IsChar(code, "v") THEN <<ActArg("ViewSet", "Peers")>>
  ELSE IF code.t \in {"Tab", "BackTab"} \/ IsChar(code, "\t") THEN <<Act("FocusToggle")>>
  ELSE IF IsChar(code, "?") THEN <<Act("HelpOpen")>>
  ELSE IF IsChar(code, "t") THEN <<ActArg("FocusSet", "Torrents")>>
  ELSE IF IsChar(code, "g") THEN <<ActArg("FocusSet", "Filters")>>
  ELSE IF IsChar(code, "p") THEN <<Act("TogglePause")>>
  ELSE IF IsChar(code, "a") THEN <<Act("StartAdd")>>
  ELSE IF IsChar(code, "d") THEN <<Act("ConfirmDeleteOpen")>>
  ELSE IF IsChar(code, "q") THEN <<Act("ConfirmQuitOpen")>>
  ELSE IF IsChar(code, "1") THEN <<ActArg("SetFilter", 0)>>
  ELSE IF IsChar(code, "2") THEN <<ActArg("SetFilter", 1)>>
  ELSE IF IsChar(code, "3") THEN <<ActArg("SetFilter", 2)>>
  ELSE IF IsChar(code, "4") THEN <<ActArg("SetFilter", 3)>>
  ELSE IF IsChar(code, "5") THEN <<ActArg("SetFilter", 4)>>
  ELSE IF IsChar(code, "6") THEN <<ActArg("SetFilter", 5)>>
  ELSE IF IsChar(code, "r") THEN <<Act("Refresh")>>
  ELSE IF code.t = "Down" \/ IsChar(code, "j")
       THEN IF a.focus = "Torrents" THEN <<ActArg("MoveSelection", 1)>>
            ELSE <<ActArg("MoveFilter", 1)>>
  ELSE IF code.t = "Up" \/ IsChar(code, "k")
       THEN IF a.focus = "Torrents" THEN <<ActArg("MoveSelection", -1)>>
            ELSE <<ActArg("MoveFilter", -1)>>
  ELSE <<>>

(* input.rs:116-127 *)
TextKeys(code) ==
  IF code.t = "Esc" THEN <<Act("InputCancel")>>
  ELSE IF code.t = "Enter" THEN <<Act("InputEnter")>>
  ELSE IF code.t = "Backspace" THEN <<Act("InputBackspace")>>
  ELSE IF code.t = "Delete" THEN <<Act("InputDelete")>>
  ELSE IF code.t = "Left" THEN <<Act("InputLeft")>>
  ELSE IF code.t = "Right" THEN <<Act("InputRight")>>
  ELSE IF code.t = "Home" THEN <<Act("InputHome")>>
  ELSE IF code.t = "End" THEN <<Act("InputEnd")>>
  ELSE IF code.t = "Char" THEN <<ActArg("InputChar", code.c)>>
  ELSE <<>>

(* input.rs:128-137 *)
FilePickerKeys(code) ==
  IF code.t = "Esc" THEN <<Act("FilePickerCancel")>>
  ELSE IF code.t = "Up" \/ IsChar(code, "k") THEN <<Act("FilePickerUp")>>
  ELSE IF code.t = "Down" \/ IsChar(code, "j") THEN <<Act("FilePickerDown")>>
  ELSE IF IsChar(code, " ") THEN <<Act("FilePickerToggle")>>
  ELSE IF IsChar(code, "a") THEN <<Act("FilePickerAll")>>
  ELSE IF IsChar(code, "n") THEN <<Act("FilePickerNone")>>
  ELSE IF code.t = "Enter" THEN <<Act("FilePickerConfirm")>>
  ELSE <<>>

(* The dispatch with the keys of the Normal mode looked at before the      *)
(* overlays.                                                               *)
Dispatch_normal_first(a, code) ==
  IF a.mode = "Normal" THEN NormalKeys(a, code)
  ELSE IF a.mode \in {"EnterMagnet", "EnterTorrentDir"} THEN TextKeys(code)
  ELSE IF a.mode = "FilePicker" THEN FilePickerKeys(code)
  ELSE <<>>

(* The dispatch asking for an error before it asks for the help.           *)
Dispatch_error_first(a, code) ==
  IF a.last_error.some THEN ErrorKeys(code)
  ELSE IF a.show_help THEN HelpKeys(code)
  ELSE IF a.confirm_delete THEN ConfirmKeys(code, "ConfirmDelete")
  ELSE IF a.confirm_quit THEN ConfirmKeys(code, "ConfirmQuit")
  ELSE IF a.mode = "Normal" THEN NormalKeys(a, code)
  ELSE IF a.mode \in {"EnterMagnet", "EnterTorrentDir"} THEN TextKeys(code)
  ELSE IF a.mode = "FilePicker" THEN FilePickerKeys(code)
  ELSE <<>>

(* input.rs:42-139: the dispatch after the kind filter and the debounce.   *)
Dispatch(a, code) ==
  IF a.show_help THEN HelpKeys(code)
  ELSE IF a.last_error.some THEN ErrorKeys(code)
  ELSE IF a.confirm_delete THEN ConfirmKeys(code, "ConfirmDelete")
  ELSE IF a.confirm_quit THEN ConfirmKeys(code, "ConfirmQuit")
  ELSE IF a.mode = "Normal" THEN NormalKeys(a, code)
  ELSE IF a.mode \in {"EnterMagnet", "EnterTorrentDir"} THEN TextKeys(code)
  ELSE IF a.mode = "FilePicker" THEN FilePickerKeys(code)
  ELSE <<>>

(* input.rs:16-28: which key events pass the kind filter.                  *)
KindAccepted(a, key) ==
  IF key.kind = "Repeat"
  THEN \/ key.code.t \in {"Up", "Down", "Left", "Right"}
       \/ (a.mode \in {"EnterMagnet", "EnterTorrentDir"} /\ key.code.t = "Char")
  ELSE key.kind = "Press"

(* input.rs:15-140 *)
actions_from_key(a, key) ==
  IF ~KindAccepted(a, key) THEN Translated(a, <<>>)
  ELSE IF a.mode = "Normal"
       THEN IF key.code.t = "Char"
            THEN IF key.code.c \notin {"h", "j", "k", "l"}
                 THEN LET r == should_ignore_paste_char(a)
                      IN IF r.ignore THEN Translated(r.app, <<>>)
                         ELSE Translated(r.app, Dispatch(r.app, key.code))
                 ELSE Translated(a, Dispatch(a, key.code))
            ELSE LET b == [a EXCEPT !.last_char_at = NoInstant]
                 IN Translated(b, Dispatch(b, key.code))
       ELSE Translated(a, Dispatch(a, key.code))

(* A translator that handles the pasted text itself. *)
actions_from_event_applying(a, ev) ==
  IF ev.type = "Key" THEN actions_from_key(a, ev)
  ELSE IF ev.type = "Paste"
       THEN Translated([a EXCEPT !.input = ev.text, !.input_cursor = Len(ev.text)], <<>>)
  ELSE Translated(a, <<>>)

(* input.rs:6-13 *)
actions_from_event(a, ev) ==
  IF ev.type = "Key" THEN actions_from_key(a, ev)
  ELSE IF ev.type = "Paste" THEN Translated(a, <<ActArg("Paste", ev.text)>>)
  ELSE Translated(a, <<>>)

----------------------------------------------------------------------------
(* The engine (librqbit Api), as the program uses it.  A tracked torrent   *)
(* is [id, info_hash, output_folder]; ids come from a counter and are not  *)
(* reused.  Statistics are the engine's to report: each listing draws them *)
(* from the environment's kinds.  Every call may fail.                     *)

Tracked(id, info_hash, output_folder) ==
  [id |-> id, info_hash |-> info_hash, output_folder |-> output_folder]
Engine(torrents, next_id) == [torrents |-> torrents, next_id |-> next_id]
TrackedIds(eng) == {t.id : t \in eng.torrents}
Forget(eng, id) == [eng EXCEPT !.torrents = {t \in @ : t.id # id}]

(* All the orders in which a set can be listed. *)
RECURSIVE Orderings(_)
Orderings(S) ==
  IF S = {} THEN {<<>>}
  ELSE UNION {{<<x>> \o rest : rest \in Orderings(S \ {x})} : x \in S}

(* api_torrent_list_ext: the tracked torrents in some order, with the      *)
(* statistics the engine reports for each.                                 *)
Listings(eng, kinds) ==
  UNION {{[i \in 1..Len(ord) |->
             [id |-> ord[i].id, info_hash |-> ord[i].info_hash,
              output_folder |-> ord[i].output_folder, stats |-> st[ord[i].id]]]
          : st \in [TrackedIds(eng) -> kinds]}
        : ord \in Orderings(eng.torrents)}

(* One logged call: the operation, its argument, whether it succeeded.     *)
Call(op, arg, ok) == [op |-> op, arg |-> arg, ok |-> ok]

(* What an effect leaves behind: the state, the engine, the directories,   *)
(* the calls it made, its error ("" for Ok) and the actions it returns.    *)
Outcome(a, eng, fs, log, err, next) ==
  [app |-> a, engine |-> eng, dirs |-> fs, calls |-> log, err |-> err, next |-> next]

----------------------------------------------------------------------------
(* app/effects.rs                                                          *)

(* A refresh that keeps the index and never looks for the selected id.     *)
refresh_by_index(a, list) ==
  LET rows == [i \in 1..Len(list) |-> to_row(list[i])]
      sel == IF rows = <<>> THEN 0 ELSE Min(a.selected, Len(rows) - 1)
  IN ensure_selection_for_filter(
       [a EXCEPT !.session_stats = TRUE, !.selected = sel, !.torrents = rows])

(* effects.rs:84-108, for the listing the engine returns.                  *)
refresh(a, list) ==
  LET rows == [i \in 1..Len(list) |-> to_row(list[i])]
      position(id) == (CHOOSE i \in 1..Len(rows) :
                         rows[i].id = id /\ \A j \in 1..(i - 1) : rows[j].id # id) - 1
      sel == IF rows = <<>> THEN 0
             ELSE IF has_selected_torrent(a)
                  THEN IF \E i \in 1..Len(rows) : rows[i].id = selected_torrent(a).id
                       THEN position(selected_torrent(a).id)
                       ELSE Min(a.selected, Len(rows) - 1)
                  ELSE Min(a.selected, Max(Len(rows) - 1, 0))
  IN ensure_selection_for_filter(
       [a EXCEPT !.session_stats = TRUE, !.selected = sel, !.torrents = rows])

(* A toggle that tries to pause a torrent in the Error state as well.      *)
toggle_pause_errored(a, eng, fs) ==
  IF ~has_selected_torrent(a) THEN {Outcome(a, eng, fs, <<>>, "", <<>>)}
  ELSE LET t == selected_torrent(a)
           tracked == t.id \in TrackedIds(eng)
       IN CASE t.stats.state = "None" -> {Outcome(a, eng, fs, <<>>, "", <<>>)}
            [] t.stats.state = "Paused" ->
                 {Outcome(a, eng, fs, <<Call("start", t.id, FALSE)>>, ErrResuming, <<>>)}
                 \cup When(tracked, {Outcome([a EXCEPT !.status = "Resumed"], eng, fs,
                                              <<Call("start", t.id, TRUE)>>, "", <<>>)})
            [] OTHER ->
                 {Outcome(a, eng, fs, <<Call("pause", t.id, FALSE)>>, ErrPausing, <<>>)}
                 \cup When(tracked, {Outcome([a EXCEPT !.status = "Paused"], eng, fs,
                                              <<Call("pause", t.id, TRUE)>>, "", <<>>)})

(* effects.rs:230-257 *)
toggle_pause(a, eng, fs) ==
  IF ~has_selected_torrent(a) THEN {Outcome(a, eng, fs, <<>>, "", <<>>)}
  ELSE LET t == selected_torrent(a)
           tracked == t.id \in TrackedIds(eng)
       IN CASE t.stats.state = "None" -> {Outcome(a, eng, fs, <<>>, "", <<>>)}
            [] t.stats.state = "Paused" ->
                 {Outcome(a, eng, fs, <<Call("start", t.id, FALSE)>>, ErrResuming, <<>>)}
                 \cup When(tracked, {Outcome([a EXCEPT !.status = "Resumed"], eng, fs,
                                              <<Call("start", t.id, TRUE)>>, "", <<>>)})
            [] t.stats.state \in {"Live", "Initializing"} ->
                 {Outcome(a, eng, fs, <<Call("pause", t.id, FALSE)>>, ErrPausing, <<>>)}
                 \cup When(tracked, {Outcome([a EXCEPT !.status = "Paused"], eng, fs,
                                              <<Call("pause", t.id, TRUE)>>, "", <<>>)})
            [] t.stats.state = "Error" ->
                 {Outcome([a EXCEPT !.status = "Cannot pause: torrent error"],
                          eng, fs, <<>>, "", <<>>)}

(* effects.rs:259-269 *)
stop_selected(a, eng, fs) ==
  IF ~has_selected_torrent(a) THEN {Outcome(a, eng, fs, <<>>, "", <<>>)}
  ELSE LET t == selected_torrent(a)
       IN {Outcome(a, eng, fs, <<Call("forget", t.id, FALSE)>>, ErrStopping, <<>>)}
          \cup When(t.id \in TrackedIds(eng),
                    {Outcome([a EXCEPT !.status = "Stopped (forgotten)"], Forget(eng, t.id),
                             fs, <<Call("forget", t.id, TRUE)>>, "", <<>>)})

(* effects.rs:271-281.  Deleting removes the torrent's files; whether its  *)
(* folder goes with them is the engine's business.                         *)
delete_selected_files(a, eng, fs) ==
  IF ~has_selected_torrent(a) THEN {Outcome(a, eng, fs, <<>>, "", <<>>)}
  ELSE LET t == selected_torrent(a)
       IN {Outcome(a, eng, fs, <<Call("delete", t.id, FALSE)>>, ErrDeleting, <<>>)}
          \cup {Outcome([a EXCEPT !.status = "Deleted torrent and files"],
                        Forget(eng, t.id), fs2, <<Call("delete", t.id, TRUE)>>, "", <<>>)
                : fs2 \in IF t.id \in TrackedIds(eng)
                          THEN {fs, fs \ {t.output_folder}} ELSE {}}

(* The preflight without the look at the engine's list.                    *)
preflight_add_unchecked(a, eng, fs, files, magnet) ==
  LET add == build_add_torrent(magnet, fs, files)
      probe == Call("probe", a.download_dir, TRUE)
      response == MetaOf(add.v)
  IN IF ~add.ok THEN {Outcome(a, eng, fs, <<>>, add.err, <<>>)}
     ELSE {Outcome(a, eng, fs, <<[probe EXCEPT !.ok = FALSE]>>, ErrListing, <<>>)}
          \cup When(response # NoMeta,
                 {Outcome(a, eng, fs, <<probe>>, "",
                          <<ActArg("PreflightAddResult", magnet)>>)})

(* effects.rs:55-82.  A probe (list_only add) answers with the metadata   *)
(* of the source, or fails; a source without metadata can only fail.       *)
preflight_add(a, eng, fs, files, magnet) ==
  LET add == build_add_torrent(magnet, fs, files)
      probe == Call("probe", a.download_dir, TRUE)
      response == MetaOf(add.v)
      existing == \E t \in eng.torrents : t.info_hash = response.info_hash
  IN IF ~add.ok THEN {Outcome(a, eng, fs, <<>>, add.err, <<>>)}
     ELSE {Outcome(a, eng, fs, <<[probe EXCEPT !.ok = FALSE]>>, ErrListing, <<>>)}
          \cup When(response # NoMeta,
                 {IF existing
                  THEN Outcome(a, eng, fs, <<probe, Call("list", 0, TRUE)>>, ErrDuplicate, <<>>)
                  ELSE Outcome(a, eng, fs, <<probe, Call("list", 0, TRUE)>>, "",
                               <<ActArg("PreflightAddResult", magnet)>>)})

(* effects.rs:115-145: the calls of the probe loop from `attempt` on when  *)
(* the first `failed` attempts fail: a sleep follows each failure but the  *)
(* last, and the first success ends the loop.                              *)
RECURSIVE ProbeLoop(_, _, _)
ProbeLoop(output_folder, attempt, failed) ==
  IF attempt >= ProbeAttempts THEN <<>>
  ELSE IF attempt < failed
       THEN <<Call("probe", output_folder, FALSE)>>
            \o (IF attempt < 2
                THEN <<Call("sleep", ProbeDelayMs, TRUE)>>
                     \o ProbeLoop(output_folder, attempt + 1, failed)
                ELSE <<>>)
       ELSE <<Call("probe", output_folder, TRUE)>>

(* The probe loop trying again at once, without the delay.                 *)
ProbeLog_without_delay(output_folder, failed) ==
  SelectSeq(ProbeLoop(output_folder, 0, failed), LAMBDA c : c.op # "sleep")

(* effects.rs:115-145: the calls of the whole loop.                        *)
ProbeLog(output_folder, failed) == ProbeLoop(output_folder, 0, failed)

(* The first folder taken whether or not it is there already.              *)
resolve_destination_reusing(a, eng, fs, files, magnet, output_folder, response, log, can_create) ==
  LET folder_name == sanitize_path_component(derive_folder_suffix(response))
      final_output == PathJoin(output_folder, folder_name)
      made == Call("create_dir_all", final_output, TRUE)
  IN IF has_same_destination(a, response.info_hash, final_output)
     THEN {Outcome(a, eng, fs, log, ErrSameDest, <<>>)}
     ELSE {Outcome([a EXCEPT !.file_picker =
                               Some(build_picker(magnet, final_output, response)),
                             !.mode = "FilePicker",
                             !.status = "Select files and press Enter",
                             !.dialog = "FilePicker"],
                   eng, fs \cup {final_output} \cup Ancestors(final_output),
                   Append(log, made), "", <<>>)}

(* effects.rs:146-171: what follows a successful probe.  can_create is     *)
(* whether create_dir_all may succeed.                                     *)
resolve_destination(a, eng, fs, files, magnet, output_folder, response, log, can_create) ==
  LET info_hash == response.info_hash
      folder_name == sanitize_path_component(derive_folder_suffix(response))
      first_output == PathJoin(output_folder, folder_name)
      short_hash == SubSeq(info_hash, 1, Min(ShortHashLen, Len(info_hash)))
      alt_output == PathJoin(output_folder, folder_name \o <<"-">> \o short_hash)
      taken == PathExists(first_output, fs, files)
      final_output == IF taken THEN alt_output ELSE first_output
      made == Call("create_dir_all", final_output, TRUE)
  IN IF has_same_destination(a, info_hash, first_output)
     THEN {Outcome(a, eng, fs, log, ErrSameDest, <<>>)}
     ELSE IF taken /\ PathExists(alt_output, fs, files)
     THEN {Outcome(a, eng, fs, log, ErrDestExists, <<>>)}
     ELSE {Outcome(a, eng, fs \cup part, Append(log, [made EXCEPT !.ok = FALSE]),
                   ErrCreateDir, <<>>)
           : part \in CreatedBeforeFailure(final_output, fs)}
          \cup When(can_create,
                 {Outcome([a EXCEPT !.file_picker =
                                       Some(build_picker(magnet, final_output, response)),
                                    !.mode = "FilePicker",
                                    !.status = "Select files and press Enter",
                                    !.dialog = "FilePicker"],
                          eng, fs \cup {final_output} \cup Ancestors(final_output),
                          Append(log, made), "", <<>>)})

(* effects.rs:110-172 *)
start_file_picker_with_dir(a, eng, fs, files, magnet, output_folder, can_create) ==
  LET add == build_add_torrent(magnet, fs, files)
      response == MetaOf(add.v)
  IN IF ~add.ok THEN {Outcome(a, eng, fs, <<>>, add.err, <<>>)}
     ELSE {Outcome(a, eng, fs, ProbeLog(output_folder, ProbeAttempts), ErrListing, <<>>)}
          \cup When(response # NoMeta,
                 UNION {resolve_destination(a, eng, fs, files, magnet, output_folder, response,
                                            ProbeLog(output_folder, failed), can_create)
                        : failed \in 0..(ProbeAttempts - 1)})

(* The torrent started whatever inclusion set the engine reports.          *)
verify_selection_trusting(a, eng, fs, log, id, expected, actual) ==
  LET details == [op |-> "details", arg |-> id, ok |-> actual # {-1},
                  reported |-> actual]
      log2 == Append(log, details)
  IN IF actual = {-1} THEN {Outcome(a, eng, fs, log2, ErrVerifying, <<>>)}
     ELSE IF actual = {-2} THEN {Outcome(a, eng, fs, log2, ErrMissingFiles, <<>>)}
     ELSE {Outcome([a EXCEPT !.status = "Torrent added"], eng, fs,
                   Append(log2, Call("start", id, TRUE)), "", <<>>),
           Outcome(a, eng, fs, Append(log2, Call("start", id, FALSE)), ErrStarting, <<>>)}

(* effects.rs:199-227: after the add returned `id`.  `actual` is the       *)
(* inclusion set the engine reports (NoDetails: the lookup failed,         *)
(* NoFileList: details without a file list); the compensating delete's     *)
(* result is dropped, so the torrent stays tracked when that call fails.   *)
NoDetails == {-1}
NoFileList == {-2}
verify_selection(a, eng, fs, log, id, expected, actual) ==
  LET details == [op |-> "details", arg |-> id, ok |-> actual # NoDetails,
                  reported |-> actual]
      log2 == Append(log, details)
  IN IF actual = NoDetails THEN {Outcome(a, eng, fs, log2, ErrVerifying, <<>>)}
     ELSE IF actual = NoFileList THEN {Outcome(a, eng, fs, log2, ErrMissingFiles, <<>>)}
     ELSE IF actual # expected
     THEN {Outcome(a, Forget(eng, id), fs, Append(log2, Call("delete", id, TRUE)),
                   ErrNotHonored, <<>>),
           Outcome(a, eng, fs, Append(log2, Call("delete", id, FALSE)),
                   ErrNotHonored, <<>>)}
     ELSE {Outcome([a EXCEPT !.status = "Torrent added"], eng, fs,
                   Append(log2, Call("start", id, TRUE)), "", <<>>),
           Outcome(a, eng, fs, Append(log2, Call("start", id, FALSE)), ErrStarting, <<>>)}

(* The download started without the look at the selection.                 *)
start_download_unguarded(a, eng, fs, files, magnet, output_folder, only_files) ==
  LET expected == Range(only_files)
      add == build_add_torrent(magnet, fs, files)
      response == MetaOf(add.v)
      id == eng.next_id
      can_add == /\ response # NoMeta
                 /\ id <= MaxTorrents
                 /\ ~\E t \in eng.torrents : t.info_hash = response.info_hash
      added == Engine(eng.torrents \cup {Tracked(id, response.info_hash, output_folder)},
                      id + 1)
      request == [op |-> "add", arg |-> only_files, ok |-> TRUE, paused |-> TRUE,
                  overwrite |-> TRUE, output_folder |-> output_folder]
  IN IF ~add.ok THEN {Outcome(a, eng, fs, <<>>, add.err, <<>>)}
     ELSE {Outcome(a, eng, fs, <<[request EXCEPT !.ok = FALSE]>>, ErrAdding, <<>>)}
          \cup When(response # NoMeta,
                    {Outcome(a, eng, fs, <<request>>, ErrNotAdded, <<>>)})
          \cup When(can_add,
                    UNION {verify_selection(a, added, fs, <<request>>, id, expected, actual)
                           : actual \in {NoDetails, NoFileList}
                                        \cup SUBSET (0..(Len(response.files) - 1))})

(* effects.rs:174-228.  The engine adds a torrent only under a fresh id    *)
(* and only if it does not track the info hash already; it may also        *)
(* answer without an id; torrent_details may report any inclusion set.     *)
start_download(a, eng, fs, files, magnet, output_folder, only_files) ==
  LET expected == Range(only_files)
      add == build_add_torrent(magnet, fs, files)
      response == MetaOf(add.v)
      id == eng.next_id
      can_add == /\ response # NoMeta
                 /\ id <= MaxTorrents
                 /\ ~\E t \in eng.torrents : t.info_hash = response.info_hash
      added == Engine(eng.torrents \cup {Tracked(id, response.info_hash, output_folder)},
                      id + 1)
      request == [op |-> "add", arg |-> only_files, ok |-> TRUE, paused |-> TRUE,
                  overwrite |-> TRUE, output_folder |-> output_folder]
  IN IF only_files = <<>> THEN {Outcome(a, eng, fs, <<>>, ErrNoFiles, <<>>)}
     ELSE IF ~add.ok THEN {Outcome(a, eng, fs, <<>>, add.err, <<>>)}
     ELSE {Outcome(a, eng, fs, <<[request EXCEPT !.ok = FALSE]>>, ErrAdding, <<>>)}
          \cup When(response # NoMeta,
                    {Outcome(a, eng, fs, <<request>>, ErrNotAdded, <<>>)})
          \cup When(can_add,
                    UNION {verify_selection(a, added, fs, <<request>>, id, expected, actual)
                           : actual \in {NoDetails, NoFileList}
                                        \cup SUBSET (0..(Len(response.files) - 1))})

(* The StartDownload arm leaving the picker behind when it commits.        *)
run_start_download_keeping_picker(a, eng, fs, files, effect) ==
  LET before == [a EXCEPT !.status = "Starting download...", !.last_error = NoneStr]
      after(o) == IF o.err = "" THEN [o EXCEPT !.app = [o.app EXCEPT
                                         !.mode = "Normal", !.dialog = "None"]]
                  ELSE o
  IN {after(o) : o \in start_download(before, eng, fs, files, effect.magnet,
                                      effect.output_folder, effect.only_files)}

(* effects.rs:39-50: the StartDownload arm of run_effect.                  *)
run_start_download(a, eng, fs, files, effect) ==
  LET before == [a EXCEPT !.status = "Starting download...", !.last_error = NoneStr]
      after(o) == IF o.err = "" THEN [o EXCEPT !.app = [o.app EXCEPT
                                         !.file_picker = NonePicker, !.mode = "Normal",
                                         !.dialog = "None"]]
                  ELSE o
  IN {after(o) : o \in start_download(before, eng, fs, files, effect.magnet,
                                      effect.output_folder, effect.only_files)}

----------------------------------------------------------------------------
(* The main loop (main.rs:45-59) and handle_event (reducer.rs:15-23).      *)

(* The last received event, as env.track_keys has the model remember it:   *)
(* the event, the time between its handling and the handling of the event  *)
(* before it, the mode and dialog it arrived in, the actions it was        *)
(* translated into, the actions the key tables have for it (input.rs:      *)
(* 42-139), and the time its drain has spent awaiting effects.             *)
Received(ev, gap, a, produced, table) ==
  [ev |-> ev, gap |-> gap, mode |-> a.mode, dialog |-> a.dialog,
   produced |-> produced, table |-> table, busy |-> 0]

(* What the key tables have for an event in state a.                       *)
Table(a, ev) ==
  IF ev.type = "Key" /\ KindAccepted(a, ev) THEN Dispatch(a, ev.code)
  ELSE IF ev.type = "Paste" THEN <<ActArg("Paste", ev.text)>>
  ELSE <<>>

(* The keys with which the operator edits the text buffer.                 *)
EditKeys == {"Char", "Backspace", "Delete", "Left", "Right", "Home", "End"}

(* The bounds on what the operator does: into a text field only the       *)
(* characters env.typed, no typing into a buffer that is full, no editing  *)
(* of a buffer longer than MaxEdit, no scrolling of the help below         *)
(* MaxHelpScroll.                                                          *)
OperatorWould(a, ev) ==
  ev.type = "Key" =>
    /\ (a.mode \in {"EnterMagnet", "EnterTorrentDir"} /\ ev.code.t \in EditKeys)
         => /\ Len(a.input) <= MaxEdit
            /\ ev.code.t = "Char" => Len(a.input) < MaxEdit /\ ev.code.c \in env.typed
    /\ (a.show_help /\ (ev.code.t = "Down" \/ IsChar(ev.code, "j")))
         => a.help_scroll < MaxHelpScroll

(* main.rs:35: the refresh before the loop starts.                         *)
Start ==
  /\ pc = "start"
  /\ \E list \in Listings(engine, env.kinds) : app' = refresh(app, list)
  /\ pc' = "idle"
  /\ UNCHANGED <<queue, inflight, chan, engine, dirs, calls, trace, hist, env>>

(* The two sources select! waits on (main.rs:48-57).  The channel's events *)
(* are received oldest first (mpsc); the interval's expiry is no event of  *)
(* the channel: it stands in chan only to tell when it happened.           *)
TimerExpired == [type |-> "Timer"]
IsEvent(x) == x.type # "Timer"
Events(c) == SelectSeq(c, IsEvent)
Without(c, i) == SubSeq(c, 1, i - 1) \o SubSeq(c, i + 1, Len(c))
FirstTimer(c) == CHOOSE i \in 1..Len(c) : ~IsEvent(c[i]) /\ \A j \in 1..(i - 1) : IsEvent(c[j])

(* UnboundedReceiver::recv on a channel that is not empty: the newest      *)
(* event instead of the oldest.                                            *)
recv_newest(c) ==
  LET i == CHOOSE i \in 1..Len(c) : IsEvent(c[i]) /\ \A j \in (i + 1)..Len(c) : ~IsEvent(c[j])
  IN [ev |-> c[i], rest |-> Without(c, i)]

(* UnboundedReceiver::recv on a channel that is not empty (main.rs:52):    *)
(* the oldest event, and what stays behind.                                *)
recv(c) ==
  LET i == CHOOSE i \in 1..Len(c) : IsEvent(c[i]) /\ \A j \in 1..(i - 1) : ~IsEvent(c[j])
  IN [ev |-> c[i], rest |-> Without(c, i)]

(* main.rs:41: the interval expires while the loop awaits an effect; the   *)
(* tick branch is ready when the loop comes back to select!.               *)
TimerFires ==
  /\ pc = "effect"
  /\ \A i \in 1..Len(chan) : IsEvent(chan[i])
  /\ chan' = Append(chan, TimerExpired)
  /\ UNCHANGED <<app, queue, pc, inflight, engine, dirs, calls, trace, hist, env>>

(* The tick branch with the loop's guard taken off.                        *)
Tick_while_busy ==
  /\ pc \in {"idle", "effect"}
  /\ \E list \in Listings(engine, env.kinds) : app' = refresh(app, list)
  /\ UNCHANGED <<queue, pc, inflight, chan, engine, dirs, calls, trace, hist, env>>

(* main.rs:49-51: the timer branch of select!, whether the interval has    *)
(* expired while the loop was busy or expires now.                         *)
Tick ==
  /\ pc = "idle"
  /\ \E list \in Listings(engine, env.kinds) : app' = refresh(app, list)
  /\ chan' = IF \E i \in 1..Len(chan) : ~IsEvent(chan[i])
             THEN Without(chan, FirstTimer(chan)) ELSE chan
  /\ UNCHANGED <<queue, pc, inflight, engine, dirs, calls, trace, hist, env>>

(* events.rs:6-21: the input thread sends an event while the loop is busy  *)
(* awaiting an effect.  (An event sent while the loop is idle is received  *)
(* at once: see RecvEvent.)                                                *)
InputThread ==
  /\ pc = "effect"
  /\ Len(Events(chan)) < env.chan_cap
  /\ \E ev \in env.buffered : chan' = Append(chan, ev)
  /\ UNCHANGED <<app, queue, pc, inflight, engine, dirs, calls, trace, hist, env>>

(* The event branch translating a buffered key against the step that was   *)
(* in force while the effect ran: the destination step for a key waiting   *)
(* in the channel when the picker has opened.                              *)
RecvEvent_as_pressed ==
  /\ pc = "idle"
  /\ \E ev \in (IF Events(chan) = <<>> THEN env.events ELSE {recv(chan).ev}),
        d \in env.delays :
       LET now == [app EXCEPT !.last_char_at = Aged(@, d)]
           pressed == IF Events(chan) # <<>> /\ app.mode = "FilePicker"
                      THEN [now EXCEPT !.mode = "EnterTorrentDir"]
                      ELSE now
           r == actions_from_event(pressed, ev)
       IN /\ OperatorWould(app, ev)
          /\ app' = [r.app EXCEPT !.mode = now.mode]
          /\ queue' = r.actions
          /\ hist' = hist
  /\ chan' = IF Events(chan) = <<>> THEN chan ELSE recv(chan).rest
  /\ pc' = "drain"
  /\ trace' = <<>>
  /\ UNCHANGED <<inflight, engine, dirs, calls, env>>

(* main.rs:52-53 and reducer.rs:16: the event branch of select! takes the  *)
(* oldest event of the channel (or, the channel empty, the event the       *)
(* operator produces now), d ms after the loop last looked at the clock,   *)
(* and translates it into the queue.                                       *)
RecvEvent ==
  /\ pc = "idle"
  /\ \E ev \in (IF Events(chan) = <<>> THEN env.events ELSE {recv(chan).ev}),
        d \in env.delays :
       LET now == [app EXCEPT !.last_char_at = Aged(@, d)]
           r == actions_from_event(now, ev)
       IN /\ OperatorWould(app, ev)
          /\ app' = r.app
          /\ queue' = r.actions
          /\ hist' = IF env.track_keys
                     THEN <<Received(ev, d + (IF hist = <<>> THEN 0 ELSE hist[1].busy),
                                     app, r.actions, Table(app, ev))>>
                     ELSE hist
  /\ chan' = IF Events(chan) = <<>> THEN chan ELSE recv(chan).rest
  /\ pc' = "drain"
  /\ trace' = <<>>
  /\ UNCHANGED <<inflight, engine, dirs, calls, env>>

(* reducer.rs:17-22 and main.rs:54-57: the queue is empty, handle_event    *)
(* returns Ok(false) (or its error has been handed to set_error) and the   *)
(* loop goes back to select!.  The status line is read by the renderer     *)
(* only (ui/mod.rs); unless env.keep_status, the model keeps it for the    *)
(* length of a drain and forgets it here.                                  *)
DrainEnd ==
  /\ pc = "drain"
  /\ queue = <<>>
  /\ pc' = "idle"
  /\ trace' = <<>>
  /\ calls' = <<>>
  /\ app' = IF env.keep_status THEN app ELSE [app EXCEPT !.status = ""]
  /\ UNCHANGED <<queue, inflight, chan, engine, dirs, hist, env>>

(* The head of the queue is an action of this type (reducer.rs:17, 30).    *)
Taking(type) == pc = "drain" /\ queue # <<>> /\ Head(queue).type = type

(* The action has been applied: the state is a2, `pushes` went to the tail *)
(* of the queue (reducer.rs:311).                                          *)
Applied(a2, pushes) ==
  /\ app' = a2
  /\ queue' = Tail(queue) \o pushes
  /\ trace' = Append(trace, Head(queue))
  /\ UNCHANGED <<pc, inflight, chan, engine, dirs, calls, hist, env>>

(* apply_action returned Err from state a2: handle_event drops the queue   *)
(* and main hands the error to set_error (main.rs:55).                     *)
Mark(err) == [type |-> "Err", arg |-> err]
Failed(a2, err) ==
  /\ app' = set_error(a2, err)
  /\ queue' = <<>>
  /\ trace' = trace \o <<Head(queue), Mark(err)>>
  /\ UNCHANGED <<pc, inflight, chan, engine, dirs, calls, hist, env>>

----------------------------------------------------------------------------
(* app/reducer.rs: apply_action, one action of the model per Action.       *)

U16Max == 65535

(* reducer.rs:31-39 *)
ApplyPaste ==
  /\ Taking("Paste")
  /\ Applied(IF app.mode \in {"EnterMagnet", "EnterTorrentDir"}
             THEN [app EXCEPT !.input = Head(queue).arg,
                              !.input_cursor = Len(Head(queue).arg)]
             ELSE [app EXCEPT !.last_char_at = 0, !.status = "Paste ignored"],
             <<>>)

(* reducer.rs:40-44 *)
HelpOpen ==
  /\ Taking("HelpOpen")
  /\ Applied([app EXCEPT !.show_help = TRUE, !.help_scroll = 0, !.dialog = "Help"], <<>>)

(* The help closed, the dialog tag left standing.                          *)
HelpClose_keeping_tag ==
  /\ Taking("HelpClose")
  /\ Applied([app EXCEPT !.show_help = FALSE, !.help_scroll = 0], <<>>)

(* reducer.rs:45-49 *)
HelpClose ==
  /\ Taking("HelpClose")
  /\ Applied([app EXCEPT !.show_help = FALSE, !.help_scroll = 0, !.dialog = "None"], <<>>)

(* reducer.rs:50-56 *)
HelpScroll ==
  /\ Taking("HelpScroll")
  /\ Applied([app EXCEPT !.help_scroll =
                IF Head(queue).arg < 0 THEN Max(@ - (0 - Head(queue).arg), 0)
                ELSE Min(@ + Head(queue).arg, U16Max)], <<>>)

(* reducer.rs:57-59 *)
ErrorClear ==
  /\ Taking("ErrorClear")
  /\ Applied(clear_error(app), <<>>)

(* reducer.rs:60-66 *)
ConfirmDeleteOpen ==
  /\ Taking("ConfirmDeleteOpen")
  /\ Applied(IF has_selected_torrent(app)
             THEN [app EXCEPT !.confirm_delete = TRUE, !.delete_choice = FALSE,
                              !.dialog = "ConfirmDelete"]
             ELSE app, <<>>)

(* reducer.rs:67-69 *)
ConfirmDeleteSelect ==
  /\ Taking("ConfirmDeleteSelect")
  /\ Applied([app EXCEPT !.delete_choice = Head(queue).arg], <<>>)

(* The dialog closed, but the files kept whatever was chosen.               *)
confirm_delete_confirm_forgetful(a) ==
  [app |-> [a EXCEPT !.confirm_delete = FALSE, !.delete_choice = FALSE, !.dialog = "None"],
   pushes |-> <<RunEffect(Eff("StopSelected"))>>]

(* reducer.rs:70-82 *)
confirm_delete_confirm(a) ==
  [app |-> [a EXCEPT !.confirm_delete = FALSE, !.delete_choice = FALSE, !.dialog = "None"],
   pushes |-> IF a.delete_choice THEN <<RunEffect(Eff("DeleteSelectedFiles"))>>
              ELSE <<RunEffect(Eff("StopSelected"))>>]

ConfirmDeleteConfirm ==
  /\ Taking("ConfirmDeleteConfirm")
  /\ Applied(confirm_delete_confirm(app).app, confirm_delete_confirm(app).pushes)

(* The dialog cancelled with the choice left as it was.                    *)
ConfirmDeleteCancel_keeping_choice ==
  /\ Taking("ConfirmDeleteCancel")
  /\ Applied([app EXCEPT !.confirm_delete = FALSE,
                         !.status = "Delete cancelled", !.dialog = "None"], <<>>)

(* reducer.rs:83-88 *)
ConfirmDeleteCancel ==
  /\ Taking("ConfirmDeleteCancel")
  /\ Applied([app EXCEPT !.confirm_delete = FALSE, !.delete_choice = FALSE,
                         !.status = "Delete cancelled", !.dialog = "None"], <<>>)

(* reducer.rs:89-93 *)
ConfirmQuitOpen ==
  /\ Taking("ConfirmQuitOpen")
  /\ Applied([app EXCEPT !.confirm_quit = TRUE, !.quit_choice = FALSE,
                         !.dialog = "ConfirmQuit"], <<>>)

(* reducer.rs:94-96 *)
ConfirmQuitSelect ==
  /\ Taking("ConfirmQuitSelect")
  /\ Applied([app EXCEPT !.quit_choice = Head(queue).arg], <<>>)

(* Enter in the quit dialog taken for a yes.                               *)
confirm_quit_confirm_eager(a) == [quit |-> TRUE, app |-> a]

(* reducer.rs:97-105 and main.rs:54-55: with the choice "yes" apply_action *)
(* returns Some(true), handle_event returns Ok(true) and the loop ends.    *)
confirm_quit_confirm(a) ==
  [quit |-> a.quit_choice,
   app |-> IF a.quit_choice THEN a
           ELSE [a EXCEPT !.confirm_quit = FALSE, !.quit_choice = FALSE,
                          !.status = "Quit cancelled", !.dialog = "None"]]

ConfirmQuitConfirm ==
  /\ Taking("ConfirmQuitConfirm")
  /\ app' = confirm_quit_confirm(app).app
  /\ pc' = IF confirm_quit_confirm(app).quit THEN "done" ELSE pc
  /\ queue' = Tail(queue)
  /\ trace' = Append(trace, Head(queue))
  /\ UNCHANGED <<inflight, chan, engine, dirs, calls, hist, env>>

(* reducer.rs:106-111 *)
ConfirmQuitCancel ==
  /\ Taking("ConfirmQuitCancel")
  /\ Applied([app EXCEPT !.confirm_quit = FALSE, !.quit_choice = FALSE,
                         !.status = "Quit cancelled", !.dialog = "None"], <<>>)

(* reducer.rs:112-114 *)
ViewSet ==
  /\ Taking("ViewSet")
  /\ Applied([app EXCEPT !.view = Head(queue).arg], <<>>)

(* reducer.rs:115-120 *)
FocusToggle ==
  /\ Taking("FocusToggle")
  /\ Applied([app EXCEPT !.focus = IF @ = "Filters" THEN "Torrents" ELSE "Filters"], <<>>)

(* reducer.rs:121-123 *)
FocusSet ==
  /\ Taking("FocusSet")
  /\ Applied([app EXCEPT !.focus = Head(queue).arg], <<>>)

(* reducer.rs:124-126 *)
MoveSelection ==
  /\ Taking("MoveSelection")
  /\ Applied(move_selection(app, Head(queue).arg), <<>>)

(* reducer.rs:127-135 *)
move_filter(a, delta) ==
  ensure_selection_for_filter(
    [a EXCEPT !.filter_index = IF delta < 0 THEN Max(@ - (0 - delta), 0)
                               ELSE Min(@ + delta, Len(FILTERS) - 1)])

MoveFilter ==
  /\ Taking("MoveFilter")
  /\ Applied(move_filter(app, Head(queue).arg), <<>>)

(* reducer.rs:136-139 *)
set_filter(a, index) ==
  ensure_selection_for_filter([a EXCEPT !.filter_index = Min(index, Len(FILTERS) - 1)])

SetFilter ==
  /\ Taking("SetFilter")
  /\ Applied(set_filter(app, Head(queue).arg), <<>>)

(* reducer.rs:140-142 *)
TogglePause ==
  /\ Taking("TogglePause")
  /\ Applied(app, <<RunEffect(Eff("TogglePause"))>>)

(* reducer.rs:143-149 *)
StartAdd ==
  /\ Taking("StartAdd")
  /\ Applied([app EXCEPT !.mode = "EnterMagnet", !.input = <<>>, !.input_cursor = 0,
                         !.status = "Paste magnet/URL/path and press Enter",
                         !.dialog = "AddTorrent"], <<>>)

(* reducer.rs:150-152 *)
InputChar ==
  /\ Taking("InputChar")
  /\ Applied(insert_char(app, Head(queue).arg), <<>>)

(* reducer.rs:153-155 *)
InputBackspace ==
  /\ Taking("InputBackspace")
  /\ Applied(backspace(app), <<>>)

(* reducer.rs:156-158 *)
InputDelete ==
  /\ Taking("InputDelete")
  /\ Applied(delete(app), <<>>)

(* reducer.rs:159-161 *)
InputLeft ==
  /\ Taking("InputLeft")
  /\ Applied(move_cursor_left(app), <<>>)

(* reducer.rs:162-164 *)
InputRight ==
  /\ Taking("InputRight")
  /\ Applied(move_cursor_right(app), <<>>)

(* reducer.rs:165-167 *)
InputHome ==
  /\ Taking("InputHome")
  /\ Applied([app EXCEPT !.input_cursor = 0], <<>>)

(* reducer.rs:168-170 *)
InputEnd ==
  /\ Taking("InputEnd")
  /\ Applied([app EXCEPT !.input_cursor = Len(app.input)], <<>>)

(* reducer.rs:171-214.  The result: the state, the actions pushed and the  *)
(* error returned through `?` ("" for none).                               *)
Reduced(a, pushes, err) == [app |-> a, pushes |-> pushes, err |-> err]

(* reducer.rs:211-213 *)
LeaveTextMode(a) ==
  IF a.mode \notin {"FilePicker", "EnterTorrentDir"} THEN [a EXCEPT !.mode = "Normal"] ELSE a

(* A submission that hands any text but the empty one to the preflight.    *)
input_enter_unvalidated(a, fs, files) ==
  LET value == Trim(a.input)
      b == [a EXCEPT !.status = IF a.mode = "EnterMagnet" THEN "Fetching metadata..." ELSE @,
                     !.input = <<>>, !.input_cursor = 0]
  IN CASE b.mode = "EnterMagnet" ->
            IF value = <<>>
            THEN Reduced(LeaveTextMode(set_error(b, ErrEmptyMagnet)), <<>>, "")
            ELSE Reduced(LeaveTextMode([b EXCEPT !.status = "Checking torrent...",
                                                 !.dialog = "None"]),
                         <<RunEffect(EffPreflightAdd(value))>>, "")
       [] b.mode = "EnterTorrentDir" ->
            IF ~b.pending_add_input.some
            THEN Reduced(b, <<>>, ErrMissingInput)
            ELSE Reduced(LeaveTextMode([b EXCEPT !.pending_add_input = NoneText,
                                                 !.status = "Fetching metadata...",
                                                 !.last_error = NoneStr]),
                         <<RunEffect(EffStartFilePicker(
                              b.pending_add_input.v,
                              IF value = <<>> THEN b.download_dir ELSE value))>>, "")
       [] OTHER -> Reduced(LeaveTextMode(b), <<>>, "")

input_enter(a, fs, files) ==
  LET value == Trim(a.input)
      b == [a EXCEPT !.status = IF a.mode = "EnterMagnet" THEN "Fetching metadata..." ELSE @,
                     !.input = <<>>, !.input_cursor = 0]
  IN CASE b.mode = "EnterMagnet" ->
            IF value = <<>>
            THEN Reduced(LeaveTextMode(set_error(b, ErrEmptyMagnet)), <<>>, "")
            ELSE IF ~build_add_torrent(value, fs, files).ok
            THEN Reduced(LeaveTextMode(set_error(b, build_add_torrent(value, fs, files).err)),
                         <<>>, "")
            ELSE Reduced(LeaveTextMode([b EXCEPT !.status = "Checking torrent...",
                                                 !.dialog = "None"]),
                         <<RunEffect(EffPreflightAdd(value))>>, "")
       [] b.mode = "EnterTorrentDir" ->
            IF ~b.pending_add_input.some
            THEN Reduced(b, <<>>, ErrMissingInput)
            ELSE Reduced(LeaveTextMode([b EXCEPT !.pending_add_input = NoneText,
                                                 !.status = "Fetching metadata...",
                                                 !.last_error = NoneStr]),
                         <<RunEffect(EffStartFilePicker(
                              b.pending_add_input.v,
                              IF value = <<>> THEN b.download_dir ELSE value))>>, "")
       [] OTHER -> Reduced(LeaveTextMode(b), <<>>, "")

InputEnter ==
  /\ Taking("InputEnter")
  /\ LET r == input_enter(app, dirs, env.files)
     IN IF r.err = "" THEN Applied(r.app, r.pushes) ELSE Failed(r.app, r.err)

(* Escape at the destination step starting the probe without taking the   *)
(* pending input.                                                          *)
input_cancel_keeping_pending(a) ==
  IF a.mode = "EnterTorrentDir" /\ a.pending_add_input.some
  THEN Reduced([a EXCEPT !.input = <<>>,
                         !.input_cursor = 0, !.status = "Fetching metadata...",
                         !.last_error = NoneStr, !.dialog = "AddTorrent"],
               <<RunEffect(EffStartFilePicker(a.pending_add_input.v, a.download_dir))>>, "")
  ELSE Reduced([a EXCEPT !.mode = "Normal", !.input = <<>>, !.input_cursor = 0,
                         !.status = "Cancelled", !.dialog = "None"], <<>>, "")

(* Escape abandoning the wizard at the destination step too.               *)
input_cancel_abandoning(a) ==
  Reduced([a EXCEPT !.mode = "Normal", !.input = <<>>, !.input_cursor = 0,
                    !.pending_add_input = NoneText,
                    !.status = "Cancelled", !.dialog = "None"], <<>>, "")

(* reducer.rs:215-236 *)
input_cancel(a) ==
  IF a.mode = "EnterTorrentDir" /\ a.pending_add_input.some
  THEN Reduced([a EXCEPT !.pending_add_input = NoneText, !.input = <<>>,
                         !.input_cursor = 0, !.status = "Fetching metadata...",
                         !.last_error = NoneStr, !.dialog = "AddTorrent"],
               <<RunEffect(EffStartFilePicker(a.pending_add_input.v, a.download_dir))>>, "")
  ELSE Reduced([a EXCEPT !.mode = "Normal", !.input = <<>>, !.input_cursor = 0,
                         !.status = "Cancelled", !.dialog = "None"], <<>>, "")

InputCancel ==
  /\ Taking("InputCancel")
  /\ Applied(input_cancel(app).app, input_cancel(app).pushes)

(* Escape in the picker starting the download of everything instead.       *)
FilePickerCancel_committing ==
  /\ Taking("FilePickerCancel")
  /\ Applied(app, <<RunEffect(EffStartDownload(app.file_picker.v.magnet,
                                               app.file_picker.v.output_folder,
                                               <<0>>))>>)

(* reducer.rs:237-242 *)
FilePickerCancel ==
  /\ Taking("FilePickerCancel")
  /\ Applied([app EXCEPT !.mode = "Normal", !.file_picker = NonePicker,
                         !.status = "Cancelled file selection", !.dialog = "None"], <<>>)

(* reducer.rs:243-247 *)
FilePickerUp ==
  /\ Taking("FilePickerUp")
  /\ Applied(IF app.file_picker.some
             THEN [app EXCEPT !.file_picker.v.cursor = Max(@ - 1, 0)] ELSE app, <<>>)

(* reducer.rs:248-254 *)
FilePickerDown ==
  /\ Taking("FilePickerDown")
  /\ Applied(IF app.file_picker.some /\ app.file_picker.v.files # <<>>
             THEN [app EXCEPT !.file_picker.v.cursor =
                                Min(@ + 1, Len(app.file_picker.v.files) - 1)]
             ELSE app, <<>>)

(* reducer.rs:255-261 *)
file_picker_toggle(a) ==
  IF a.file_picker.some /\ a.file_picker.v.cursor < Len(a.file_picker.v.files)
  THEN [a EXCEPT !.file_picker.v.files[a.file_picker.v.cursor + 1].included = ~@]
  ELSE a

FilePickerToggle ==
  /\ Taking("FilePickerToggle")
  /\ Applied(file_picker_toggle(app), <<>>)

(* Every flag but that of the entry under the cursor.                      *)
file_picker_set_all_but_cursor(a, included) ==
  IF a.file_picker.some
  THEN [a EXCEPT !.file_picker.v.files =
                   [i \in 1..Len(@) |->
                      IF i = a.file_picker.v.cursor + 1 THEN @[i]
                      ELSE [@[i] EXCEPT !.included = included]]]
  ELSE a

(* reducer.rs:262-275: FilePickerAll sets every flag, FilePickerNone clears them. *)
file_picker_set_all(a, included) ==
  IF a.file_picker.some
  THEN [a EXCEPT !.file_picker.v.files =
                   [i \in 1..Len(@) |-> [@[i] EXCEPT !.included = included]]]
  ELSE a

FilePickerAll ==
  /\ Taking("FilePickerAll")
  /\ Applied(file_picker_set_all(app, TRUE), <<>>)

FilePickerNone ==
  /\ Taking("FilePickerNone")
  /\ Applied(file_picker_set_all(app, FALSE), <<>>)

(* reducer.rs:276-292: the included indices (0-based), ascending.          *)
included_indices(files) ==
  SelectSeq([i \in 1..Len(files) |-> i - 1], LAMBDA i : files[i + 1].included)

file_picker_confirm(a) ==
  IF a.file_picker.some
  THEN <<RunEffect(EffStartDownload(a.file_picker.v.magnet, a.file_picker.v.output_folder,
                                    included_indices(a.file_picker.v.files)))>>
  ELSE <<>>

(* The confirm closing the picker's mode and dialog before the effect runs. *)
FilePickerConfirm_closing ==
  /\ Taking("FilePickerConfirm")
  /\ Applied([app EXCEPT !.mode = "Normal", !.dialog = "None"], file_picker_confirm(app))

FilePickerConfirm ==
  /\ Taking("FilePickerConfirm")
  /\ Applied(app, file_picker_confirm(app))

(* reducer.rs:293-295 *)
Refresh ==
  /\ Taking("Refresh")
  /\ Applied(app, <<RunEffect(Eff("Refresh"))>>)

(* The directory step entered with nothing filled in.                      *)
preflight_add_result_blank(a, magnet) ==
  [a EXCEPT !.pending_add_input = Some(magnet), !.mode = "EnterTorrentDir",
            !.input = <<>>, !.input_cursor = 0,
            !.status = "Set download dir for this torrent", !.dialog = "AddTorrent"]

(* reducer.rs:302-309 *)
preflight_add_result(a, magnet) ==
  [a EXCEPT !.pending_add_input = Some(magnet), !.mode = "EnterTorrentDir",
            !.input = a.download_dir, !.input_cursor = Len(a.download_dir),
            !.status = "Set download dir for this torrent", !.dialog = "AddTorrent"]

(* The result of the preflight submitting the destination at once.         *)
PreflightAddResult_submitting ==
  /\ Taking("PreflightAddResult")
  /\ Applied(preflight_add_result(app, Head(queue).arg), <<Act("InputEnter")>>)

PreflightAddResult ==
  /\ Taking("PreflightAddResult")
  /\ Applied(preflight_add_result(app, Head(queue).arg), <<>>)

----------------------------------------------------------------------------
(* reducer.rs:296-301 and effects.rs:15-53: RunEffect awaits run_effect.   *)
(* EffectBegin takes the action from the queue; the effect's own action    *)
(* completes it.  In between only the input thread runs.                   *)

EffectBegin ==
  /\ Taking("RunEffect")
  /\ inflight' = Head(queue).effect
  /\ pc' = "effect"
  /\ queue' = Tail(queue)
  /\ trace' = Append(trace, Head(queue))
  /\ UNCHANGED <<app, chan, engine, dirs, calls, hist, env>>

Running(kind) == pc = "effect" /\ inflight.kind = kind

RECURSIVE Slept(_)
Slept(log) ==
  IF log = <<>> THEN 0
  ELSE (IF Head(log).op = "sleep" THEN Head(log).arg ELSE 0) + Slept(Tail(log))

(* run_effect resolved, and the actions it returned are thrown away.       *)
Resolved_dropping_next(o, d) ==
  LET a2 == [o.app EXCEPT !.last_char_at = Aged(@, d + Slept(o.calls))]
  IN /\ app' = IF o.err = "" THEN a2 ELSE set_error(a2, o.err)
     /\ queue' = IF o.err = "" THEN queue ELSE <<>>
     /\ trace' = IF o.err = "" THEN trace ELSE Append(trace, Mark(o.err))
     /\ engine' = o.engine
     /\ dirs' = o.dirs
     /\ calls' = calls \o o.calls
     /\ inflight' = NoEffect
     /\ pc' = "drain"
     /\ hist' = IF hist = <<>> THEN hist
                ELSE <<[hist[1] EXCEPT !.busy = @ + d + Slept(o.calls)]>>
     /\ UNCHANGED <<chan, env>>

(* run_effect resolved with outcome o after d ms (plus its sleeps): Ok     *)
(* appends the returned actions (reducer.rs:298-300); Err leaves           *)
(* handle_event through `?` and main calls set_error (main.rs:55).         *)
Resolved(o, d) ==
  LET a2 == [o.app EXCEPT !.last_char_at = Aged(@, d + Slept(o.calls))]
  IN /\ app' = IF o.err = "" THEN a2 ELSE set_error(a2, o.err)
     /\ queue' = IF o.err = "" THEN queue \o o.next ELSE <<>>
     /\ trace' = IF o.err = "" THEN trace ELSE Append(trace, Mark(o.err))
     /\ engine' = o.engine
     /\ dirs' = o.dirs
     /\ calls' = calls \o o.calls
     /\ inflight' = NoEffect
     /\ pc' = "drain"
     /\ hist' = IF hist = <<>> THEN hist
                ELSE <<[hist[1] EXCEPT !.busy = @ + d + Slept(o.calls)]>>
     /\ UNCHANGED <<chan, env>>

(* effects.rs:17-19 *)
RunRefresh ==
  /\ Running("Refresh")
  /\ \E list \in Listings(engine, env.kinds) :
       Resolved(Outcome(refresh(app, list), engine, dirs, <<>>, "", <<>>), 0)

(* effects.rs:20-22 *)
RunTogglePause ==
  /\ Running("TogglePause")
  /\ \E o \in toggle_pause(app, engine, dirs), d \in env.delays : Resolved(o, d)

(* effects.rs:23-25 *)
RunStopSelected ==
  /\ Running("StopSelected")
  /\ \E o \in stop_selected(app, engine, dirs), d \in env.delays : Resolved(o, d)

(* effects.rs:26-28 *)
RunDeleteSelectedFiles ==
  /\ Running("DeleteSelectedFiles")
  /\ \E o \in delete_selected_files(app, engine, dirs), d \in env.delays : Resolved(o, d)

(* effects.rs:29-32 *)
RunPreflightAdd ==
  /\ Running("PreflightAdd")
  /\ \E o \in preflight_add(app, engine, dirs, env.files, inflight.magnet),
        d \in env.delays : Resolved(o, d)

(* effects.rs:33-38 *)
RunStartFilePicker ==
  /\ Running("StartFilePicker")
  /\ \E o \in start_file_picker_with_dir(app, engine, dirs, env.files, inflight.magnet,
                                         inflight.output_folder,
                                         Cardinality(dirs) < MaxDirs),
        d \in env.delays : Resolved(o, d)

(* effects.rs:39-50 *)
RunStartDownload ==
  /\ Running("StartDownload")
  /\ \E o \in run_start_download(app, engine, dirs, env.files, inflight),
        d \in env.delays : Resolved(o, d)

----------------------------------------------------------------------------
(* The key events there are (crossterm KeyCode and KeyEventKind, as far as *)
(* input.rs tells them apart): "z" and "é" stand for the characters and    *)
(* "F1" for the keys without a binding.                                    *)

CharKeys == {"f", "i", "v", "\t", "?", "t", "g", "p", "a", "d", "q", "1", "2", "3", "4",
             "5", "6", "r", "j", "k", "h", "l", "y", "Y", "n", "N", "x", " ", "z", "é"}
SpecialKeys == {"Up", "Down", "Left", "Right", "Tab", "BackTab", "Esc", "Enter",
                "Backspace", "Delete", "Home", "End", "F1"}
KeyKinds == {"Press", "Repeat", "Release"}
KeysOfKind(kind) ==
  {Key(kind, "Char", c) : c \in CharKeys} \cup {Key(kind, t, "") : t \in SpecialKeys}
AllKeys == UNION {KeysOfKind(kind) : kind \in KeyKinds}

(* The torrents the session restores at start (main.rs:20-31): the first k *)
(* of these, under ids 1..k.                                               *)
Restored == << Tracked(1, HashB, <<"/","d","/","a","-","b">>),
               Tracked(2, HashA, <<"/","d","/","M","y","S","h","o","w">>),
               Tracked(3, HashC, <<"/","d","/","c","0","f","f","e","e","0","0">>) >>
RestoredEngine(k) == Engine({Restored[i] : i \in 1..k}, k + 1)

(* The state after construction (main.rs:33): App::new, nothing queued,    *)
(* the loop not yet started, in the environment e.                         *)
InitIn(e) ==
  /\ app = NewApp
  /\ queue = <<>>
  /\ pc = "start"
  /\ inflight = NoEffect
  /\ chan = <<>>
  /\ engine \in {RestoredEngine(k) : k \in e.restored}
  /\ dirs \in e.init_dirs
  /\ calls = <<>>
  /\ trace = <<>>
  /\ hist = <<>>
  /\ env = e

----------------------------------------------------------------------------
(* The whole program: every step of the loop, every reducer action, every  *)
(* effect.                                                                 *)

Next ==
  \/ Start \/ Tick \/ TimerFires \/ InputThread \/ RecvEvent \/ DrainEnd
  \/ ApplyPaste \/ HelpOpen \/ HelpClose \/ HelpScroll \/ ErrorClear
  \/ ConfirmDeleteOpen \/ ConfirmDeleteSelect \/ ConfirmDeleteConfirm \/ ConfirmDeleteCancel
  \/ ConfirmQuitOpen \/ ConfirmQuitSelect \/ ConfirmQuitConfirm \/ ConfirmQuitCancel
  \/ ViewSet \/ FocusToggle \/ FocusSet \/ MoveSelection \/ MoveFilter \/ SetFilter
  \/ TogglePause \/ StartAdd \/ InputChar \/ InputBackspace \/ InputDelete \/ InputLeft
  \/ InputRight \/ InputHome \/ InputEnd \/ InputEnter \/ InputCancel
  \/ FilePickerCancel \/ FilePickerUp \/ FilePickerDown \/ FilePickerToggle
  \/ FilePickerAll \/ FilePickerNone \/ FilePickerConfirm \/ Refresh \/ PreflightAddResult
  \/ EffectBegin \/ RunRefresh \/ RunTogglePause \/ RunStopSelected
  \/ RunDeleteSelectedFiles \/ RunPreflightAdd \/ RunStartFilePicker \/ RunStartDownload

----------------------------------------------------------------------------
(* Browsing: an operator who moves through the list and the filters,       *)
(* refreshes, and removes torrents, over an engine that restores two       *)
(* torrents (or none) and reports them downloading, seeding, paused, or     *)
(* without statistics.                                                     *)
(* BrowseNext is Next without the actions these keys never lead to.        *)

BrowseEnv ==
  [events |-> {PressChar(c) : c \in {"j", "k", "g", "t", "1", "2", "3", "4", "5", "6",
                                     "r", "d", "y"}}
              \cup {Press(t) : t \in {"Tab", "Enter", "Esc", "Right"}},
   buffered |-> {PressChar("j")},
   kinds |-> {Stats("Live", FALSE, FALSE), Stats("Live", TRUE, TRUE),
              Stats("Paused", FALSE, FALSE), NoStats},
   files |-> {}, typed |-> {}, delays |-> {TickMs},
   track_keys |-> FALSE, keep_status |-> FALSE, chan_cap |-> MaxChan,
   restored |-> {0, 2}, init_dirs |-> {{DownloadDir}}]

BrowseNext ==
  \/ Start \/ Tick \/ InputThread \/ RecvEvent \/ DrainEnd
  \/ FocusToggle \/ FocusSet \/ MoveSelection \/ MoveFilter \/ SetFilter \/ Refresh
  \/ ConfirmDeleteOpen \/ ConfirmDeleteSelect \/ ConfirmDeleteConfirm \/ ConfirmDeleteCancel
  \/ ErrorClear \/ EffectBegin \/ RunRefresh \/ RunStopSelected \/ RunDeleteSelectedFiles

SpecBrowse == InitIn(BrowseEnv) /\ [][BrowseNext]_vars

----------------------------------------------------------------------------
(* C1: between event drains, with a non-empty torrent cache and whatever   *)
(* filter is active, either the row at the selected index satisfies the    *)
(* filter, or no row of the cache satisfies it and the selected index is 0.*)
C1_SelectedRowMatchesFilter ==
  (pc = "idle" /\ app.torrents # <<>>) =>
     IF filtered_indices(app) = <<>> THEN app.selected = 0
     ELSE /\ app.selected < Len(app.torrents)
          /\ filter_match(app, app.torrents[app.selected + 1])

(* The selection was moved off row 0, which the filter rejects, onto row 1. *)
C1_Witness ==
  /\ pc = "idle"
  /\ Len(app.torrents) = 2
  /\ selected_filter(app) = "Paused"
  /\ app.selected = 1
  /\ ~filter_match(app, app.torrents[1])
  /\ filter_match(app, app.torrents[2])

----------------------------------------------------------------------------
(* C10: applying ConfirmDeleteConfirm enqueues exactly one effect request, *)
(* DeleteSelectedFiles if the pending choice is yes and StopSelected if it *)
(* is no, and the confirm dialog is closed (Dialog = None, the flag and    *)
(* the choice reset) from that step on, so before the effect runs.         *)
C10_ConfirmStep ==
  Taking("ConfirmDeleteConfirm") =>
    /\ queue' = Tail(queue) \o
                 <<RunEffect(Eff(IF app.delete_choice THEN "DeleteSelectedFiles"
                                 ELSE "StopSelected"))>>
    /\ app'.dialog = "None" /\ ~app'.confirm_delete /\ ~app'.delete_choice

C10_ClosedWhileRunning ==
  (pc = "effect" /\ inflight.kind \in {"DeleteSelectedFiles", "StopSelected"}) =>
    app.dialog = "None" /\ ~app.confirm_delete /\ ~app.delete_choice

C10_ConfirmDeleteEnqueuesOneEffect == [][C10_ConfirmStep]_vars /\ []C10_ClosedWhileRunning

(* The operator chose yes and confirmed: the deletion is in flight.        *)
C10_Witness ==
  /\ pc = "effect"
  /\ inflight = Eff("DeleteSelectedFiles")
  /\ trace = <<Act("ConfirmDeleteConfirm"), RunEffect(Eff("DeleteSelectedFiles"))>>

----------------------------------------------------------------------------
(* A session: an operator who looks at the help, moves the selection, pauses *)
(* and resumes and removes the restored torrents, starts to add a          *)
(* torrent and gives up or submits something that is no torrent, and       *)
(* opens, answers, cancels and confirms the quit dialog; keys arrive 50 or *)
(* 500 ms apart.                                                           *)

SessionEnv ==
  [events |-> {PressChar(c) : c \in {"q", "y", "n", "?", "p", "j", "x", "d", "a"}}
              \cup {Press(t) : t \in {"Enter", "Esc", "Left"}}
              \cup {Resize},
   buffered |-> {PressChar("q"), Press("Enter")},
   kinds |-> {Stats("Live", FALSE, FALSE), Stats("Paused", FALSE, FALSE)},
   files |-> {}, typed |-> {"q"}, delays |-> {50, TickMs},
   track_keys |-> FALSE, keep_status |-> FALSE, chan_cap |-> MaxChan,
   restored |-> {1, 2}, init_dirs |-> {{DownloadDir}}]

SessionNext ==
  \/ Start \/ Tick \/ InputThread \/ RecvEvent \/ DrainEnd
  \/ HelpOpen \/ HelpClose \/ HelpScroll \/ ErrorClear
  \/ ConfirmDeleteOpen \/ ConfirmDeleteSelect \/ ConfirmDeleteConfirm \/ ConfirmDeleteCancel
  \/ ConfirmQuitOpen \/ ConfirmQuitSelect \/ ConfirmQuitConfirm \/ ConfirmQuitCancel
  \/ MoveSelection \/ TogglePause
  \/ StartAdd \/ InputChar \/ InputLeft \/ InputEnter \/ InputCancel
  \/ EffectBegin \/ RunTogglePause \/ RunStopSelected
  \/ RunDeleteSelectedFiles

SpecSession == InitIn(SessionEnv) /\ [][SessionNext]_vars

----------------------------------------------------------------------------
(* C9: the loop ends only through a confirmed quit.  The step that ends it *)
(* applies ConfirmQuitConfirm with the quit choice yes and the quit dialog *)
(* open; the choice becomes yes only by ConfirmQuitSelect(yes), the dialog *)
(* opens only by ConfirmQuitOpen (which resets the choice), and the choice *)
(* is yes only while the dialog is open, so no cancel came in between.  No *)
(* other action, effect result or effect failure ends the loop.            *)
C9_QuitStep ==
  /\ (pc' = "done" /\ pc # "done") =>
        /\ Taking("ConfirmQuitConfirm")
        /\ app.quit_choice /\ app.confirm_quit /\ app.dialog = "ConfirmQuit"
  /\ (app'.quit_choice /\ ~app.quit_choice) =>
        Taking("ConfirmQuitSelect") /\ Head(queue).arg = TRUE
  /\ (app'.confirm_quit /\ ~app.confirm_quit) =>
        Taking("ConfirmQuitOpen") /\ ~app'.quit_choice

C9_ChoiceOnlyInDialog ==
  app.quit_choice => app.confirm_quit /\ app.dialog = "ConfirmQuit"

----------------------------------------------------------------------------
(* Keys: an operator who presses character keys (every binding of the     *)
(* Normal table, with one of the three views and two of the six filters,   *)
(* and keys without a binding) and Esc, 50 or 500 ms after the loop was    *)
(* last free, over one restored torrent.  The model remembers the last     *)
(* event (env.track_keys).                                                 *)

PressedChars ==
  {"f", "\t", "?", "t", "g", "p", "a", "d", "q", "1", "2", "r",
   "j", "k", "h", "l", "y", "n", "x", " ", "z"}

KeysEnv ==
  [events |-> {PressChar(c) : c \in PressedChars} \cup {Press("Esc")},
   buffered |-> {PressChar("p")},
   kinds |-> {Stats("Live", FALSE, FALSE)},
   files |-> {}, typed |-> {"z"}, delays |-> {50, TickMs},
   track_keys |-> TRUE, keep_status |-> FALSE, chan_cap |-> MaxChan,
   restored |-> {1}, init_dirs |-> {{DownloadDir}}]

KeysNext ==
  \/ Start \/ Tick \/ InputThread \/ RecvEvent \/ DrainEnd
  \/ HelpOpen \/ HelpClose \/ HelpScroll \/ ErrorClear
  \/ ConfirmDeleteOpen \/ ConfirmDeleteSelect \/ ConfirmDeleteCancel
  \/ ConfirmQuitOpen \/ ConfirmQuitSelect \/ ConfirmQuitCancel
  \/ ViewSet \/ FocusToggle \/ FocusSet \/ MoveSelection \/ MoveFilter \/ SetFilter
  \/ TogglePause \/ StartAdd \/ InputChar \/ InputCancel \/ Refresh
  \/ EffectBegin \/ RunRefresh \/ RunTogglePause

SpecKeys == InitIn(KeysEnv) /\ [][KeysNext]_vars

----------------------------------------------------------------------------
(* C4, as the specification has it: in Normal mode, for every character    *)
(* key, of two presses of the same key handled 50 ms apart exactly one     *)
(* produces its action and the other produces none, and of two presses     *)
(* handled 500 ms apart both produce their action.                         *)

(* The step that receives an event. *)
Receiving == pc = "idle" /\ pc' = "drain" /\ hist' # <<>>

IsCharPress(ev) == ev.type = "Key" /\ ev.kind = "Press" /\ ev.code.t = "Char"

C4_SameKeyAgain ==
  /\ Receiving /\ hist # <<>>
  /\ IsCharPress(hist'[1].ev) /\ hist[1].ev = hist'[1].ev
  /\ hist[1].mode = "Normal" /\ hist'[1].mode = "Normal"

C4_AsClaimedStep ==
  C4_SameKeyAgain =>
    /\ hist'[1].gap = 50 => (hist[1].produced = <<>>) # (hist'[1].produced = <<>>)
    /\ hist'[1].gap = 500 => (hist[1].produced # <<>> /\ hist'[1].produced # <<>>)

C4_DebounceStep ==
  (Receiving /\ IsCharPress(hist'[1].ev) /\ hist'[1].mode = "Normal") =>
    LET cur == hist'[1]
        debounced == cur.ev.code.c \notin {"h", "j", "k", "l"} /\ cur.dialog = "None"
    IN /\ ~debounced => cur.produced = cur.table
       /\ (debounced /\ cur.gap > DebounceMs) => cur.produced = cur.table
       /\ ( /\ debounced /\ cur.gap <= DebounceMs
            /\ hist # <<>> /\ hist[1].ev = cur.ev
            /\ hist[1].mode = "Normal" /\ hist[1].dialog = "None" )
            => cur.produced = <<>>

----------------------------------------------------------------------------
(* The wizard: an operator who adds torrents from two magnet links (one    *)
(* pasted with blanks around it, one of a torrent without a name and       *)
(* without files) to the default directory or to a pasted one, picks files *)
(* and confirms, cancels or starts over, and forgets torrents again, over  *)
(* an engine that tracks nothing at start and a download                   *)
(* directory in which the first torrent's folder, or that and its          *)
(* alternate, may exist already.                                           *)

PaddedA == <<" ">> \o SourceA \o <<" ">>
FirstA == PathJoin(DownloadDir, NameA)
AltA == PathJoin(DownloadDir, NameA \o <<"-">> \o SubSeq(HashA, 1, ShortHashLen))

WizardEnv ==
  [events |-> {PressChar(c) : c \in {"a", "n", " ", "x", "d"}}
              \cup {Press(t) : t \in {"Enter", "Esc", "Down", "Up"}}
              \cup {Paste(PaddedA), Paste(SourceC)},
   buffered |-> {Press("Enter")},
   kinds |-> {Stats("Live", FALSE, FALSE)},
   files |-> {}, typed |-> {}, delays |-> {TickMs},
   track_keys |-> FALSE, keep_status |-> FALSE, chan_cap |-> MaxChan,
   restored |-> {0},
   init_dirs |-> {{DownloadDir}, {DownloadDir, FirstA}, {DownloadDir, FirstA, AltA}}]

WizardNext ==
  \/ Start \/ Tick \/ InputThread \/ RecvEvent \/ DrainEnd
  \/ ApplyPaste \/ ErrorClear \/ MoveSelection
  \/ ConfirmDeleteOpen \/ ConfirmDeleteSelect \/ ConfirmDeleteConfirm \/ ConfirmDeleteCancel
  \/ StartAdd \/ InputEnter \/ InputCancel
  \/ FilePickerCancel \/ FilePickerUp \/ FilePickerDown \/ FilePickerToggle
  \/ FilePickerAll \/ FilePickerNone \/ FilePickerConfirm \/ PreflightAddResult
  \/ EffectBegin \/ RunPreflightAdd \/ RunStartFilePicker \/ RunStartDownload
  \/ RunStopSelected

SpecWizard == InitIn(WizardEnv) /\ [][WizardNext]_vars

(* The calls the step has added to the log.                                *)
NewCalls == SubSeq(calls', Len(calls) + 1, Len(calls'))
(* The effect in flight has returned: Ok, or Err with this text.           *)
Returned(kind) == Running(kind) /\ pc' = "drain"
ReturnedOk == trace' = trace
ReturnedErr(err) == trace' = Append(trace, Mark(err))

----------------------------------------------------------------------------
(* C2: for every StartDownload whose requested index set differs from the  *)
(* inclusion set the engine reports for the torrent it has just added, the *)
(* effect deletes the added torrent and returns the selection-mismatch     *)
(* error, and the torrent cache does not contain that torrent afterwards,  *)
(* later refreshes included.                                               *)
C2_Mismatch ==
  \E i \in 1..Len(NewCalls) :
      /\ NewCalls[i].op = "details" /\ NewCalls[i].ok
      /\ NewCalls[i].arg = engine.next_id
      /\ NewCalls[i].reported # NoFileList
      /\ NewCalls[i].reported # Range(inflight.only_files)

C2_MismatchStep ==
  (Returned("StartDownload") /\ C2_Mismatch) =>
     /\ ReturnedErr(ErrNotHonored)
     /\ engine.next_id \notin TrackedIds(engine')

(* While the mismatch is on display the torrent it was about is the one    *)
(* added last.                                                             *)
C2_NotInCache ==
  app.last_error = Some(ErrNotHonored) =>
     \A i \in 1..Len(app.torrents) : app.torrents[i].id # engine.next_id - 1

C2_MismatchRemovesTorrent == [][C2_MismatchStep]_vars /\ []C2_NotInCache

----------------------------------------------------------------------------
(* C3.  The folders StartFilePicker chooses between for the probed         *)
(* torrent: <dest>/<leaf> and <dest>/<leaf>-<first 8 of the info hash>.    *)
C3_Response == MetaOf(build_add_torrent(inflight.magnet, dirs, env.files).v)
C3_Leaf == sanitize_path_component(derive_folder_suffix(C3_Response))
C3_First == PathJoin(inflight.output_folder, C3_Leaf)
C3_Alt ==
  PathJoin(inflight.output_folder,
           C3_Leaf \o <<"-">> \o SubSeq(C3_Response.info_hash, 1,
                                        Min(ShortHashLen, Len(C3_Response.info_hash))))
C3_Existed(path) == PathExists(path, dirs, env.files)
C3_Probed == \E i \in 1..Len(NewCalls) : NewCalls[i].op = "probe" /\ NewCalls[i].ok
C3_Chosen == app'.file_picker.v.output_folder

(* C3, as the specification has it: StartFilePicker never selects an       *)
(* existing directory as the destination; if <dest>/<leaf> exists it       *)
(* either succeeds with the alternate, which did not exist before, or      *)
(* fails with "Destination folder already exists" when the alternate       *)
(* exists too; in the failing case no directory is created and no picker   *)
(* is built.                                                               *)
C3_AsClaimedStep ==
  (Returned("StartFilePicker") /\ C3_Probed) =>
     /\ ReturnedOk => ~C3_Existed(C3_Chosen)
     /\ C3_Existed(C3_First) =>
          \/ /\ ReturnedOk /\ app'.file_picker.some
             /\ C3_Chosen = C3_Alt /\ ~C3_Existed(C3_Alt)
          \/ /\ ReturnedErr(ErrDestExists) /\ C3_Existed(C3_Alt)
             /\ dirs' = dirs /\ ~app'.file_picker.some

C3_AsClaimed == [][C3_AsClaimedStep]_vars

(* C3, as the code has it: StartFilePicker never selects an existing       *)
(* directory as the destination: when it succeeds it has created the       *)
(* folder it selects, which did not exist before and is <dest>/<leaf>, or  *)
(* the alternate if <dest>/<leaf> exists; when <dest>/<leaf> and the       *)
(* alternate both exist it fails, with "Destination folder already exists" *)
(* unless the cache holds the torrent at <dest>/<leaf> already; when only  *)
(* <dest>/<leaf> exists it may fail all the same (the torrent is cached    *)
(* at that folder, or the alternate cannot be created).  Whenever it fails *)
(* no picker is built and neither folder is created; no directory at all   *)
(* is created unless creating the folder is what failed.                   *)
C3_DestinationStep ==
  Returned("StartFilePicker") =>
     /\ ReturnedOk =>
          /\ C3_Probed /\ app'.file_picker.some /\ app'.mode = "FilePicker"
          /\ ~C3_Existed(C3_Chosen) /\ C3_Chosen \in dirs'
          /\ C3_Chosen = IF C3_Existed(C3_First) THEN C3_Alt ELSE C3_First
     /\ ~ReturnedOk =>
          /\ ~app'.file_picker.some
          /\ dirs' \cap {C3_First, C3_Alt} = dirs \cap {C3_First, C3_Alt}
          /\ ReturnedErr(ErrCreateDir) \/ dirs' = dirs
     /\ (C3_Probed /\ C3_Existed(C3_First) /\ C3_Existed(C3_Alt)) =>
          \/ ReturnedErr(ErrDestExists)
          \/ ReturnedErr(ErrSameDest)
               /\ has_same_destination(app, C3_Response.info_hash, C3_First)
     /\ ReturnedErr(ErrDestExists) =>
          C3_Probed /\ C3_Existed(C3_First) /\ C3_Existed(C3_Alt)
     /\ (C3_Probed /\ C3_Existed(C3_First) /\ ~C3_Existed(C3_Alt)) =>
          \/ ReturnedOk
          \/ ReturnedErr(ErrCreateDir)
          \/ ReturnedErr(ErrSameDest)

C3_NeverAnExistingFolder == [][C3_DestinationStep]_vars

(* <dest>/MyShow was there: the picker is built for the alternate.         *)
C3_Witness ==
  /\ pc = "drain" /\ queue = <<>>
  /\ trace = <<Act("InputEnter"), RunEffect(EffStartFilePicker(SourceA, DownloadDir))>>
  /\ app.file_picker.some /\ app.file_picker.v.output_folder = AltA
  /\ {FirstA, AltA} \subseteq dirs

----------------------------------------------------------------------------
(* C5: submitting a valid magnet with InputEnter in EnterMagnet mode, when *)
(* the engine's probe succeeds and its listing has no torrent with the     *)
(* probed info hash, ends after the full queue drain in Mode =             *)
(* EnterTorrentDir, Dialog = AddTorrent, PendingAddInput = the trimmed     *)
(* magnet, and the input buffer equal to the default download directory    *)
(* with the cursor at its end.                                             *)
C5_Listed ==
  \E t \in engine.torrents :
     t.info_hash = MetaOf(build_add_torrent(inflight.magnet, dirs, env.files).v).info_hash

C5_Step ==
  /\ ( /\ Taking("InputEnter") /\ app.mode = "EnterMagnet"
       /\ Trim(app.input) # <<>>
       /\ build_add_torrent(Trim(app.input), dirs, env.files).ok )
       => /\ trace = <<>>
          /\ queue' = <<RunEffect(EffPreflightAdd(Trim(app.input)))>>
  /\ ( /\ Returned("PreflightAdd")
       /\ \E i \in 1..Len(NewCalls) : NewCalls[i].op = "probe" /\ NewCalls[i].ok
       /\ ~C5_Listed )
       => /\ ReturnedOk
          /\ queue' = <<ActArg("PreflightAddResult", inflight.magnet)>>

C5_Drained ==
  ( /\ pc = "drain" /\ queue = <<>> /\ Len(trace) >= 3
    /\ trace[1] = Act("InputEnter")
    /\ trace[2].type = "RunEffect" /\ trace[2].effect.kind = "PreflightAdd"
    /\ trace[3].type # "Err" )
    => /\ trace = <<trace[1], trace[2], ActArg("PreflightAddResult", trace[2].effect.magnet)>>
       /\ app.mode = "EnterTorrentDir" /\ app.dialog = "AddTorrent"
       /\ app.pending_add_input = Some(trace[2].effect.magnet)
       /\ app.input = app.download_dir /\ app.input = DownloadDir
       /\ app.input_cursor = Len(app.input)

C5_MagnetLeadsToDirectoryStep == [][C5_Step]_vars /\ []C5_Drained

(* A second magnet submitted while the first torrent is tracked.           *)
C5_Witness ==
  /\ pc = "drain" /\ queue = <<>>
  /\ trace = <<Act("InputEnter"), RunEffect(EffPreflightAdd(SourceC)),
               ActArg("PreflightAddResult", SourceC)>>
  /\ engine.torrents # {}
  /\ app.pending_add_input = Some(SourceC) /\ app.input = DownloadDir

----------------------------------------------------------------------------
(* C6: for every file-picker state, with any number of entries and any     *)
(* cursor position: after FilePickerNone (all entries off) followed by     *)
(* FilePickerAll every entry's included flag is true, and a following      *)
(* FilePickerConfirm enqueues StartDownload whose only_files list is       *)
(* exactly the index range 0..n-1 in ascending order.                      *)
C6_AllAre(a, included) ==
  \A i \in 1..Len(a.file_picker.v.files) : a.file_picker.v.files[i].included = included
C6_FullRange(a) == [i \in 1..Len(a.file_picker.v.files) |-> i - 1]
C6_Download(a) ==
  <<RunEffect(EffStartDownload(a.file_picker.v.magnet, a.file_picker.v.output_folder,
                               C6_FullRange(a)))>>

(* The three reductions in a row, from every picker there is.              *)
C6_FromEveryPicker ==
  app.file_picker.some =>
    LET none == file_picker_set_all(app, FALSE)
        all == file_picker_set_all(none, TRUE)
    IN /\ C6_AllAre(none, FALSE) /\ C6_AllAre(all, TRUE)
       /\ all.file_picker.v.cursor = app.file_picker.v.cursor
       /\ Len(all.file_picker.v.files) = Len(app.file_picker.v.files)
       /\ file_picker_confirm(all) = C6_Download(app)

(* The three actions, and the steps between them.                          *)
C6_Step ==
  /\ (Taking("FilePickerNone") /\ app.file_picker.some) => C6_AllAre(app', FALSE)
  /\ (Taking("FilePickerAll") /\ app.file_picker.some) => C6_AllAre(app', TRUE)
  /\ (Taking("FilePickerConfirm") /\ app.file_picker.some /\ C6_AllAre(app, TRUE))
       => queue' = C6_Download(app) /\ app' = app
  /\ (pc = "idle" \/ (pc = "drain" /\ queue = <<>>)) => app'.file_picker = app.file_picker

C6_NoneThenAllSelectsEverything == [][C6_Step]_vars /\ []C6_FromEveryPicker

(* All picked again with the cursor on the last of three entries, and      *)
(* confirmed.                                                              *)
C6_Witness ==
  /\ pc = "drain" /\ trace = <<Act("FilePickerConfirm")>>
  /\ app.file_picker.some /\ app.file_picker.v.cursor = 2
  /\ queue = <<RunEffect(EffStartDownload(SourceA, FirstA, <<0, 1, 2>>))>>

----------------------------------------------------------------------------
(* Failures: an operator who uses every dialog (help, delete, quit, the    *)
(* wizard with its file picker) over one restored torrent, submits an      *)
(* empty magnet, something that is no torrent, or a magnet link, and       *)
(* pastes at any time; every engine call and the folder creation may fail. *)

ErrorsEnv ==
  [events |-> {PressChar(c) : c \in {"a", "d", "q", "y", "?", "p", "x", " ", "z"}}
              \cup {Press(t) : t \in {"Enter", "Esc"}}
              \cup {Paste(SourceA)},
   buffered |-> {Press("Enter"), PressChar("y")},
   kinds |-> {Stats("Live", FALSE, FALSE)},
   files |-> {}, typed |-> {"z"}, delays |-> {TickMs},
   track_keys |-> FALSE, keep_status |-> FALSE, chan_cap |-> MaxChan,
   restored |-> {1}, init_dirs |-> {{DownloadDir}}]

ErrorsNext ==
  \/ Start \/ Tick \/ InputThread \/ RecvEvent \/ DrainEnd
  \/ ApplyPaste \/ HelpOpen \/ HelpClose \/ ErrorClear
  \/ ConfirmDeleteOpen \/ ConfirmDeleteSelect \/ ConfirmDeleteConfirm \/ ConfirmDeleteCancel
  \/ ConfirmQuitOpen \/ ConfirmQuitSelect \/ ConfirmQuitConfirm \/ ConfirmQuitCancel
  \/ TogglePause \/ StartAdd \/ InputChar \/ InputEnter \/ InputCancel
  \/ FilePickerCancel \/ FilePickerToggle \/ FilePickerAll \/ FilePickerConfirm
  \/ PreflightAddResult
  \/ EffectBegin \/ RunTogglePause \/ RunStopSelected \/ RunDeleteSelectedFiles
  \/ RunPreflightAdd \/ RunStartFilePicker \/ RunStartDownload

SpecErrors == InitIn(ErrorsEnv) /\ [][ErrorsNext]_vars

----------------------------------------------------------------------------
(* C7: whenever an effect or a synchronous validation fails, the state     *)
(* after the failure is handled has Dialog = Error with the error text     *)
(* recorded, Mode = Normal, and every modal or transient field collapsed:  *)
(* no confirm dialog open, both choices no, help closed with scroll 0, no  *)
(* pending input, no file picker, the input buffer empty with cursor 0,    *)
(* the debounce timestamp cleared.                                         *)
Collapsed(a) ==
  /\ a.dialog = "Error" /\ a.last_error.some /\ a.mode = "Normal"
  /\ ~a.confirm_delete /\ ~a.confirm_quit /\ ~a.delete_choice /\ ~a.quit_choice
  /\ ~a.show_help /\ a.help_scroll = 0
  /\ ~a.pending_add_input.some /\ ~a.file_picker.some
  /\ a.input = <<>> /\ a.input_cursor = 0
  /\ a.last_char_at = NoInstant

(* An effect, or apply_action itself, returned Err: the drain is over.     *)
C7_AfterEffectFailure ==
  (pc = "drain" /\ trace # <<>> /\ Last(trace).type = "Err") =>
    /\ Collapsed(app) /\ app.last_error = Some(Last(trace).arg)
    /\ queue = <<>>

(* InputEnter refuses what was submitted as a magnet; and no error is      *)
(* recorded anywhere without the collapse.                                 *)
C7_FailureStep ==
  /\ ( /\ Taking("InputEnter") /\ app.mode = "EnterMagnet"
       /\ \/ Trim(app.input) = <<>>
          \/ ~build_add_torrent(Trim(app.input), dirs, env.files).ok )
       => Collapsed(app')
  /\ (app'.last_error.some /\ app'.last_error # app.last_error) => Collapsed(app')

C7_FailureCollapsesEverything == [][C7_FailureStep]_vars /\ []C7_AfterEffectFailure

(* The download failed to start: the picker the wizard had built is gone.  *)
C7_Witness ==
  /\ pc = "drain"
  /\ Len(trace) = 3
  /\ trace[1] = Act("FilePickerConfirm")
  /\ trace[3] = Mark(ErrStarting)
  /\ Collapsed(app)

----------------------------------------------------------------------------
(* C8, as the specification has it: while the Error dialog is shown the    *)
(* only key that changes state is the dismiss key (x or Esc).              *)
Dismisses(key) == key.kind = "Press" /\ (IsChar(key.code, "x") \/ key.code.t = "Esc")

C8_AsClaimed ==
  app.last_error.some =>
    \A key \in AllKeys :
      ~Dismisses(key) => actions_from_key(app, key) = Translated(app, <<>>)

(* C8, as the code has it: while the Error dialog is shown no key but the  *)
(* dismiss key (x or Esc) produces an action, and a key changes nothing in *)
(* the state but the debounce timestamp, which a key that is no character  *)
(* clears; after ErrorClear the state is Mode = Normal, Dialog = None, no  *)
(* last error, no pending input, no file picker and an empty input buffer. *)
C8_OnlyDismissActs ==
  app.last_error.some =>
    \A key \in AllKeys :
      LET r == actions_from_key(app, key)
      IN /\ r.actions = IF Dismisses(key) THEN <<Act("ErrorClear")>> ELSE <<>>
         /\ r.app = [app EXCEPT !.last_char_at = r.app.last_char_at]
         /\ r.app.last_char_at # app.last_char_at =>
               /\ key.code.t # "Char" /\ key.kind \in {"Press", "Repeat"}
               /\ r.app.last_char_at = NoInstant

C8_ClearStep ==
  Taking("ErrorClear") =>
    /\ app'.mode = "Normal" /\ app'.dialog = "None" /\ ~app'.last_error.some
    /\ ~app'.pending_add_input.some /\ ~app'.file_picker.some
    /\ app'.input = <<>>

C8_ErrorDialogIsModal == [][C8_ClearStep]_vars /\ []C8_OnlyDismissActs

(* The error of a failed listing was dismissed.                            *)
C8_Witness ==
  /\ pc = "drain" /\ trace = <<Act("ErrorClear")>>
  /\ app.mode = "Normal" /\ app.dialog = "None" /\ ~app.last_error.some
  /\ app.status = "Ready"

----------------------------------------------------------------------------
(* Order of arrival: an operator who pauses and resumes, refreshes and     *)
(* moves through two restored torrents and keeps pressing keys while an    *)
(* effect is awaited; the interval may expire during the effect, before    *)
(* or after a key arrives.  Two events fit into the channel.               *)

OrderEnv ==
  [events |-> {PressChar(c) : c \in {"p", "r", "j", "k", "x"}},
   buffered |-> {PressChar("j"), PressChar("p")},
   kinds |-> {Stats("Live", FALSE, FALSE), Stats("Paused", FALSE, FALSE)},
   files |-> {}, typed |-> {}, delays |-> {TickMs},
   track_keys |-> FALSE, keep_status |-> FALSE, chan_cap |-> MaxChan + 1,
   restored |-> {2}, init_dirs |-> {{DownloadDir}}]

OrderNext ==
  \/ Start \/ Tick \/ TimerFires \/ InputThread \/ RecvEvent \/ DrainEnd
  \/ ErrorClear \/ MoveSelection \/ TogglePause \/ Refresh
  \/ EffectBegin \/ RunRefresh \/ RunTogglePause

SpecOrder == InitIn(OrderEnv) /\ [][OrderNext]_vars

----------------------------------------------------------------------------
(* C11: effects are serialized: at no time are two effects in flight, and  *)
(* while an effect is outstanding no action is applied and no periodic     *)
(* refresh changes the application state; the state is changed only by     *)
(* the outstanding effect, when it resolves.                               *)
C11_Step ==
  /\ (inflight' # inflight /\ inflight' # NoEffect)
       => inflight = NoEffect /\ pc = "drain" /\ pc' = "effect"
  /\ pc = "effect"
       => \/ <<app, queue, trace, engine, dirs, calls, inflight, pc>>'
               = <<app, queue, trace, engine, dirs, calls, inflight, pc>>
          \/ /\ pc' = "drain" /\ inflight' = NoEffect /\ chan' = chan
             /\ trace' = trace \/ (Len(trace') = Len(trace) + 1 /\ Last(trace').type = "Err")

C11_OneInFlight == (pc = "effect") <=> (inflight # NoEffect)

C11_EffectsAreSerialized == [][C11_Step]_vars /\ []C11_OneInFlight

(* A pause is awaited; a key has arrived and the interval has expired.     *)
C11_Witness ==
  /\ pc = "effect" /\ inflight = Eff("TogglePause")
  /\ chan = <<PressChar("j"), TimerExpired>>
  /\ trace = <<Act("TogglePause"), RunEffect(Eff("TogglePause"))>>

----------------------------------------------------------------------------
(* C12: the periodic refresh is delivered through the same FIFO queue as   *)
(* the user-driven actions, so a timer refresh and a user command are      *)
(* always processed in the order in which they arrived, never reordered.   *)
C12_Step ==
  /\ (pc = "idle" /\ pc' = "idle") => app' = app
  /\ (pc = "idle" /\ chan' # chan) => chan' = Tail(chan)

C12_RefreshInArrivalOrder == [][C12_Step]_vars

----------------------------------------------------------------------------
(* C13: input events produced by the input thread while an effect is in    *)
(* flight are never dropped and never applied early: each one is queued,   *)
(* and after the effect resolves all of them are handled exactly once in   *)
(* their arrival order.                                                    *)
C13_Step ==
  /\ pc \in {"drain", "effect"} =>
       /\ IsPrefix(Events(chan), Events(chan'))
       /\ Len(Events(chan')) <= Len(Events(chan)) + 1
       /\ Events(chan') # Events(chan) => pc = "effect" /\ app' = app /\ queue' = queue
  /\ (pc = "idle" /\ Events(chan) # <<>>) =>
       \/ Events(chan') = Events(chan) /\ pc' = "idle" /\ queue' = queue
       \/ /\ Events(chan') = Tail(Events(chan)) /\ pc' = "drain"
          /\ \E d \in env.delays :
                LET r == actions_from_event([app EXCEPT !.last_char_at = Aged(@, d)],
                                            Head(Events(chan)))
                IN queue' = r.actions /\ app' = r.app
  /\ (pc = "idle" /\ Events(chan) = <<>>) => Events(chan') = <<>>

C13_BufferedEventsInOrder == [][C13_Step]_vars

(* 'j' and then 'p' arrived during an effect: 'j' is being handled, 'p'    *)
(* waits.                                                                  *)
C13_Witness ==
  /\ pc = "drain" /\ trace = <<ActArg("MoveSelection", 1)>>
  /\ Events(chan) = <<PressChar("p")>>

----------------------------------------------------------------------------
(* C14.  Within one drain the actions are applied in FIFO order: what a    *)
(* step of the drain applies is the front of the queue, and the rest of    *)
(* the queue stays, in its order, in front of whatever the step pushed; an *)
(* effect that resolves Ok appends the actions it returned to the queue as *)
(* it stood at dispatch (PreflightAdd returns one PreflightAddResult, the  *)
(* other effects none), and nothing else touches the queue while the       *)
(* effect is awaited.  Only an error empties the queue.                    *)
C14_Returned ==
  IF inflight.kind = "PreflightAdd"
  THEN <<ActArg("PreflightAddResult", inflight.magnet)>> ELSE <<>>

C14_Step ==
  /\ (pc = "drain" /\ queue # <<>>) =>
       \/ /\ trace' = Append(trace, Head(queue))
          /\ IsPrefix(Tail(queue), queue')
       \/ /\ trace' = trace \o <<Head(queue), Last(trace')>>
          /\ Last(trace').type = "Err"
          /\ queue' = <<>>
  /\ pc = "effect" =>
       \/ pc' = "effect" /\ queue' = queue /\ trace' = trace
       \/ pc' = "drain" /\ trace' = trace /\ queue' = queue \o C14_Returned
       \/ /\ pc' = "drain" /\ queue' = <<>>
          /\ Len(trace') = Len(trace) + 1 /\ Last(trace').type = "Err"

C14_QueueAtMostOne == Len(queue) <= 1

----------------------------------------------------------------------------
(* C15.  In every reachable state the dialog tag agrees with the mode and  *)
(* the overlay flags: Help iff the help is shown, Error iff an error is    *)
(* recorded, ConfirmDelete iff the delete confirmation is open,            *)
(* ConfirmQuit iff the quit confirmation is open, AddTorrent iff the mode  *)
(* is EnterMagnet or EnterTorrentDir, FilePicker iff the mode is           *)
(* FilePicker, None iff the mode is Normal and no flag is set; at most one *)
(* overlay is open.                                                        *)
C15_Overlays(a) ==
  {n \in {"Help", "Error", "ConfirmDelete", "ConfirmQuit", "AddTorrent", "FilePicker"} :
     \/ n = "Help" /\ a.show_help
     \/ n = "Error" /\ a.last_error.some
     \/ n = "ConfirmDelete" /\ a.confirm_delete
     \/ n = "ConfirmQuit" /\ a.confirm_quit
     \/ n = "AddTorrent" /\ a.mode \in {"EnterMagnet", "EnterTorrentDir"}
     \/ n = "FilePicker" /\ a.mode = "FilePicker"}

C15_DialogAgrees ==
  /\ (app.dialog = "Help") <=> app.show_help
  /\ (app.dialog = "Error") <=> app.last_error.some
  /\ (app.dialog = "ConfirmDelete") <=> app.confirm_delete
  /\ (app.dialog = "ConfirmQuit") <=> app.confirm_quit
  /\ (app.dialog = "AddTorrent") <=> (app.mode \in {"EnterMagnet", "EnterTorrentDir"})
  /\ (app.dialog = "FilePicker") <=> (app.mode = "FilePicker")
  /\ (app.dialog = "None") <=> (app.mode = "Normal" /\ C15_Overlays(app) = {})
  /\ Cardinality(C15_Overlays(app)) <= 1

(* The help, opened earlier, has just been closed.                         *)
C15_Witness ==
  /\ pc = "drain" /\ trace = <<Act("HelpClose")>>
  /\ app.dialog = "None" /\ ~app.show_help

----------------------------------------------------------------------------
(* C16.  While the dialog is anything other than None, no key event        *)
(* produces a navigation or command action of the Normal mode (a move of   *)
(* the selection or the filter, a filter, focus or view change, HelpOpen,  *)
(* TogglePause, StartAdd, ConfirmDeleteOpen, ConfirmQuitOpen, Refresh),    *)
(* whatever the key; and from receiving a key in a dialog to the end of    *)
(* the drain it starts, no such action is applied and the selection, the   *)
(* filter, the focused panel and the view stay as they were.               *)
C16_Commands ==
  {"MoveSelection", "MoveFilter", "SetFilter", "FocusToggle", "FocusSet", "ViewSet",
   "HelpOpen", "TogglePause", "StartAdd", "ConfirmDeleteOpen", "ConfirmQuitOpen", "Refresh"}

C16_Navigation(a) == <<a.selected, a.filter_index, a.focus, a.view>>

C16_NoCommand(actions) == \A i \in 1..Len(actions) : actions[i].type \notin C16_Commands

C16_KeysInDialog ==
  app.dialog # "None" =>
    \A key \in AllKeys :
      /\ C16_NoCommand(actions_from_event(app, key).actions)
      /\ C16_Navigation(actions_from_event(app, key).app) = C16_Navigation(app)

(* The drain under way was started by a command of the Normal mode.        *)
C16_ByCommand ==
  \/ trace # <<>> /\ trace[1].type \in C16_Commands
  \/ trace = <<>> /\ queue # <<>> /\ Head(queue).type \in C16_Commands

C16_Step ==
  /\ (pc = "idle" /\ pc' = "drain" /\ app.dialog # "None")
       => C16_NoCommand(queue') /\ C16_Navigation(app') = C16_Navigation(app)
  /\ (pc \in {"drain", "effect"} /\ ~C16_ByCommand)
       => C16_NoCommand(queue') /\ C16_Navigation(app') = C16_Navigation(app)

C16_DialogsAreModal == [][C16_Step]_vars /\ []C16_KeysInDialog

(* 'a' pressed in the file picker has selected every file rather than      *)
(* started a second wizard.                                                *)
C16_Witness ==
  /\ pc = "drain" /\ trace = <<Act("FilePickerAll")>>
  /\ app.dialog = "FilePicker"

----------------------------------------------------------------------------
(* C17.  The pending add input is present only in the mode                 *)
(* EnterTorrentDir.  It is set only by the PreflightAddResult that a       *)
(* successful PreflightAdd returned, to that effect's source, and is not   *)
(* replaced while present; it goes away only by Enter or Escape at the     *)
(* destination step, which hand it to StartFilePicker, or by an error; and *)
(* no error leaves it behind.                                              *)
C17_OnlyAtDestination == app.pending_add_input.some => app.mode = "EnterTorrentDir"

C17_Step ==
  /\ (~app.pending_add_input.some /\ app'.pending_add_input.some)
       => /\ Taking("PreflightAddResult")
          /\ trace # <<>> /\ Last(trace) = RunEffect(EffPreflightAdd(Head(queue).arg))
          /\ app'.pending_add_input = Some(Head(queue).arg)
  /\ (app.pending_add_input.some /\ app'.pending_add_input.some)
       => app'.pending_add_input = app.pending_add_input
  /\ (app.pending_add_input.some /\ ~app'.pending_add_input.some)
       => \/ /\ Taking("InputEnter") \/ Taking("InputCancel")
             /\ Len(queue') = 1 /\ queue'[1].type = "RunEffect"
             /\ queue'[1].effect.kind = "StartFilePicker"
             /\ queue'[1].effect.magnet = app.pending_add_input.v
             /\ app'.mode = "EnterTorrentDir"
          \/ trace' # <<>> /\ Last(trace').type = "Err"
  /\ (trace' # trace /\ trace' # <<>> /\ Last(trace').type = "Err")
       => ~app'.pending_add_input.some

C17_PendingInputOnlyAtDestination == [][C17_Step]_vars /\ []C17_OnlyAtDestination

(* Escape at the destination step has taken the pending input and the      *)
(* probe into the default directory is under way.                          *)
C17_Witness ==
  /\ pc = "effect"
  /\ trace = <<Act("InputCancel"), RunEffect(EffStartFilePicker(SourceA, DownloadDir))>>
  /\ app.mode = "EnterTorrentDir" /\ ~app.pending_add_input.some

----------------------------------------------------------------------------
(* C18.  The file-picker state exists exactly while the mode is            *)
(* FilePicker.  It is created only by a StartFilePicker effect that        *)
(* succeeds, for that effect's source; it goes away only by                *)
(* FilePickerCancel, by a StartDownload that succeeds, or by an error; and *)
(* after each of the three it is absent.                                   *)
C18_ExactlyInFilePicker == app.file_picker.some <=> (app.mode = "FilePicker")

C18_Failing == trace' # trace /\ trace' # <<>> /\ Last(trace').type = "Err"

C18_Step ==
  /\ (~app.file_picker.some /\ app'.file_picker.some)
       => /\ Returned("StartFilePicker") /\ ReturnedOk
          /\ app'.file_picker.v.magnet = inflight.magnet
  /\ (app.file_picker.some /\ ~app'.file_picker.some)
       => \/ Taking("FilePickerCancel")
          \/ Returned("StartDownload") /\ ReturnedOk
          \/ C18_Failing
  /\ (Taking("FilePickerCancel") /\ trace' # trace) => ~app'.file_picker.some
  /\ (Returned("StartDownload") /\ ReturnedOk) => ~app'.file_picker.some
  /\ C18_Failing => ~app'.file_picker.some

C18_PickerOnlyInFilePicker == [][C18_Step]_vars /\ []C18_ExactlyInFilePicker

(* The download has been committed from the picker and the picker is gone. *)
C18_Witness ==
  /\ pc = "drain" /\ Len(trace) = 2
  /\ trace[1] = Act("FilePickerConfirm") /\ trace[2].type = "RunEffect"
  /\ app.status = "Torrent added"
  /\ app.mode = "Normal" /\ ~app.file_picker.some

----------------------------------------------------------------------------
(* C19.  When the engine already tracks the info hash of the probed        *)
(* torrent, PreflightAdd fails: with the duplicate error once the probe    *)
(* has answered, with the listing error when it has not.  Nothing is       *)
(* returned to the queue, no directory is created and the engine is left   *)
(* alone; the drain ends there, in the Error dialog with the mode Normal:  *)
(* the wizard does not enter EnterTorrentDir and no StartFilePicker is     *)
(* dispatched.                                                             *)
C19_Tracked ==
  \E t \in engine.torrents :
     t.info_hash = MetaOf(build_add_torrent(inflight.magnet, dirs, env.files).v).info_hash

C19_Probed == \E i \in 1..Len(NewCalls) : NewCalls[i].op = "probe" /\ NewCalls[i].ok

C19_Step ==
  (Returned("PreflightAdd") /\ C19_Tracked)
    => /\ ReturnedErr(IF C19_Probed THEN ErrDuplicate ELSE ErrListing)
       /\ queue' = <<>>
       /\ dirs' = dirs /\ engine' = engine
       /\ \A i \in 1..Len(NewCalls) : NewCalls[i].op \in {"probe", "list"}
       /\ app'.mode = "Normal" /\ app'.dialog = "Error"
       /\ ~app'.pending_add_input.some

C19_Stopped ==
  ( /\ pc \in {"drain", "effect"} /\ Len(trace) >= 3
    /\ trace[2].type = "RunEffect" /\ trace[2].effect.kind = "PreflightAdd"
    /\ trace[3].type = "Err" )
    => /\ Len(trace) = 3 /\ queue = <<>> /\ pc = "drain" /\ inflight = NoEffect
       /\ app.mode = "Normal"

C19_DuplicateStopsAtPreflight == [][C19_Step]_vars /\ []C19_Stopped

(* The source of a torrent the engine tracks has been submitted again and  *)
(* refused.                                                                *)
C19_Witness ==
  /\ pc = "drain"
  /\ trace = <<Act("InputEnter"), RunEffect(EffPreflightAdd(SourceA)), Mark(ErrDuplicate)>>
  /\ \E t \in engine.torrents : t.info_hash = HashA
  /\ app.dialog = "Error"

----------------------------------------------------------------------------
(* C20.  StartDownload with an empty only-file list fails with "No files   *)
(* selected" before any call is made: no add, details, start or delete     *)
(* reaches the engine, the engine and the directories are as before, and   *)
(* the failure ends in the Error dialog.                                   *)
C20_Step ==
  (Returned("StartDownload") /\ inflight.only_files = <<>>)
    => /\ ReturnedErr(ErrNoFiles)
       /\ NewCalls = <<>>
       /\ engine' = engine /\ dirs' = dirs
       /\ queue' = <<>>
       /\ app'.dialog = "Error" /\ app'.last_error = Some(ErrNoFiles)
       /\ app'.mode = "Normal"

C20_EmptySelectionFailsFirst == [][C20_Step]_vars

(* Every file deselected, the picker confirmed, the download refused.      *)
C20_Witness ==
  /\ pc = "drain" /\ Len(trace) = 3
  /\ trace[1] = Act("FilePickerConfirm")
  /\ trace[2].type = "RunEffect" /\ trace[2].effect.kind = "StartDownload"
  /\ trace[2].effect.only_files = <<>>
  /\ trace[3] = Mark(ErrNoFiles)
  /\ calls = <<>> /\ engine.torrents = {}
  /\ app.dialog = "Error"

----------------------------------------------------------------------------
(* C21.  A burst of character keys that begins in Normal mode with no      *)
(* dialog open triggers nothing beyond its first key: a character key      *)
(* other than h, j, k, l handled at most 200 ms after a character key that *)
(* was received in Normal mode with no dialog open is dropped, and leaves  *)
(* the state as it was but for the status line and the debounce timestamp. *)
C21_LaterKeyOfBurst ==
  /\ Receiving /\ hist # <<>>
  /\ IsCharPress(hist[1].ev) /\ hist[1].mode = "Normal" /\ hist[1].dialog = "None"
  /\ IsCharPress(hist'[1].ev) /\ hist'[1].ev.code.c \notin {"h", "j", "k", "l"}
  /\ hist'[1].gap <= DebounceMs

C21_Step ==
  C21_LaterKeyOfBurst =>
    /\ queue' = <<>>
    /\ [app' EXCEPT !.status = "", !.last_char_at = NoInstant]
         = [app EXCEPT !.status = "", !.last_char_at = NoInstant]

C21_BurstTriggersNothing == [][C21_Step]_vars

(* What the code keeps of it: the later key is dropped when the key before *)
(* it was none of h, j, k, l (these leave no timestamp) and has left the   *)
(* mode Normal with no dialog open.                                        *)
C21_StepWhileNoDialog ==
  ( /\ C21_LaterKeyOfBurst /\ hist[1].ev.code.c \notin {"h", "j", "k", "l"}
    /\ app.mode = "Normal" /\ app.dialog = "None" ) => C21_Step

C21_DroppedWhileNoDialog == [][C21_StepWhileNoDialog]_vars

----------------------------------------------------------------------------
(* C22.  Pasted text reaches the input buffer only in the modes            *)
(* EnterMagnet and EnterTorrentDir, where it is inserted as it is at the   *)
(* cursor, the text before and after the cursor staying, and the cursor    *)
(* moves behind it; in every other mode a paste leaves buffer and cursor   *)
(* as they were.                                                           *)
C22_Inserted(input, cursor, text) ==
  SubSeq(input, 1, Min(cursor, Len(input))) \o text
    \o SubSeq(input, Min(cursor, Len(input)) + 1, Len(input))

C22_Step ==
  (Taking("Paste") /\ trace' # trace) =>
    IF app.mode \in {"EnterMagnet", "EnterTorrentDir"}
    THEN /\ app'.input = C22_Inserted(app.input, app.input_cursor, Head(queue).arg)
         /\ app'.input_cursor = app.input_cursor + Len(Head(queue).arg)
    ELSE /\ app'.input = app.input
         /\ app'.input_cursor = app.input_cursor

C22_PasteInsertsAtCursor == [][C22_Step]_vars

(* What the code does instead: in a text-entry mode the pasted text        *)
(* replaces the buffer and the cursor goes to its end; elsewhere buffer    *)
(* and cursor stay, and status and debounce timestamp are set.             *)
C22_ReplacedStep ==
  (Taking("Paste") /\ trace' # trace) =>
    IF app.mode \in {"EnterMagnet", "EnterTorrentDir"}
    THEN app' = [app EXCEPT !.input = Head(queue).arg,
                            !.input_cursor = Len(Head(queue).arg)]
    ELSE app' = [app EXCEPT !.status = "Paste ignored", !.last_char_at = 0]

C22_PasteReplaces == [][C22_ReplacedStep]_vars

(* A paste has been applied over the prefilled destination.                *)
C22_Replaced ==
  /\ pc = "drain" /\ trace = <<ActArg("Paste", SourceA)>>
  /\ app.mode = "EnterTorrentDir" /\ app.input = SourceA

----------------------------------------------------------------------------
(* C23, as the specification has it: in every wizard step a drain begun    *)
(* by Escape runs no effect and makes no call.                             *)
C23_ByEscape == trace # <<>> /\ trace[1].type \in {"InputCancel", "FilePickerCancel"}

C23_AsClaimed ==
  C23_ByEscape => /\ pc = "drain" /\ calls = <<>>
                  /\ \A i \in 1..Len(trace) : trace[i].type # "RunEffect"
                  /\ \A i \in 1..Len(queue) : queue[i].type # "RunEffect"

(* C23, as the code has it: Escape in the magnet step and Escape in the    *)
(* file picker push nothing, call nothing, leave engine and directories    *)
(* alone and end the drain in Normal mode with no dialog; Escape in the    *)
(* destination step pushes StartFilePicker for the default download        *)
(* directory, and of a drain begun by Escape that is the only effect.      *)
C23_Step ==
  /\ ( /\ \/ Taking("InputCancel") /\ app.mode # "EnterTorrentDir"
          \/ Taking("FilePickerCancel")
       /\ trace' # trace )
       => /\ queue' = <<>> /\ pc' = "drain" /\ inflight' = NoEffect
          /\ calls' = calls /\ engine' = engine /\ dirs' = dirs
          /\ app'.mode = "Normal" /\ app'.dialog = "None"
  /\ (Taking("InputCancel") /\ app.mode = "EnterTorrentDir" /\ trace' # trace)
       => /\ Len(queue') = 1 /\ queue'[1].type = "RunEffect"
          /\ queue'[1].effect.kind = "StartFilePicker"
          /\ queue'[1].effect.output_folder = app.download_dir
          /\ calls' = calls /\ engine' = engine /\ dirs' = dirs

C23_Drain ==
  C23_ByEscape =>
    \/ /\ trace = <<trace[1]>> /\ pc = "drain" /\ calls = <<>>
    \/ /\ trace[1].type = "InputCancel" /\ Len(trace) >= 2
       /\ trace[2].type = "RunEffect" /\ trace[2].effect.kind = "StartFilePicker"
       /\ \A i \in 3..Len(trace) : trace[i].type = "Err"

C23_EscapeBeforeSubmit == [][C23_Step]_vars /\ []C23_Drain

(* Escape in the file picker: back in Normal mode, nothing called.         *)
C23_Witness ==
  /\ pc = "drain" /\ trace = <<Act("FilePickerCancel")>>
  /\ app.mode = "Normal" /\ calls = <<>> /\ queue = <<>>

----------------------------------------------------------------------------
(* C24.  Escape at the destination step (EnterTorrentDir with the pending  *)
(* input present) does not abandon the wizard: it enqueues StartFilePicker *)
(* for the pending source and the default download directory, the wizard   *)
(* staying where it is; when that effect succeeds the wizard is in         *)
(* FilePicker mode with the picker of that source.  Escape at the magnet   *)
(* step goes back to Normal with no dialog and an empty buffer, and        *)
(* enqueues nothing.                                                       *)
C24_Step ==
  /\ ( /\ Taking("InputCancel") /\ trace' # trace
       /\ app.mode = "EnterTorrentDir" /\ app.pending_add_input.some )
       => /\ queue' = <<RunEffect(EffStartFilePicker(app.pending_add_input.v,
                                                      app.download_dir))>>
          /\ app'.mode = "EnterTorrentDir" /\ app'.dialog = "AddTorrent"
  /\ ( /\ Returned("StartFilePicker") /\ ReturnedOk
       /\ trace[1] = Act("InputCancel") )
       => /\ app'.mode = "FilePicker" /\ app'.dialog = "FilePicker"
          /\ app'.file_picker.some
          /\ app'.file_picker.v.magnet = inflight.magnet
          /\ inflight.output_folder = app.download_dir
  /\ (Taking("InputCancel") /\ trace' # trace /\ app.mode = "EnterMagnet")
       => /\ queue' = <<>>
          /\ app'.mode = "Normal" /\ app'.dialog = "None"
          /\ app'.input = <<>> /\ app'.input_cursor = 0

C24_EscapeAtDestinationDefaults == [][C24_Step]_vars

(* Escape at the destination step has led into the file picker.            *)
C24_Witness ==
  /\ pc = "drain"
  /\ trace = <<Act("InputCancel"), RunEffect(EffStartFilePicker(SourceA, DownloadDir))>>
  /\ app.mode = "FilePicker" /\ app.file_picker.v.magnet = SourceA

----------------------------------------------------------------------------
(* C25.  No error raised inside an effect is swallowed: whenever a call an *)
(* effect made has failed (a probe of StartFilePicker that was followed by *)
(* another attempt apart), the effect fails with the error of that call,   *)
(* the Error dialog shows it, and the call is not made again.              *)
C25_RaisedBy(op) ==
  CASE op = "probe" -> {ErrListing}
    [] op = "create_dir_all" -> {ErrCreateDir}
    [] op = "add" -> {ErrAdding}
    [] op = "details" -> {ErrVerifying}
    [] op = "start" -> {ErrStarting, ErrResuming}
    [] op = "pause" -> {ErrPausing}
    [] op = "forget" -> {ErrStopping}
    [] op = "delete" -> {ErrDeleting}
    [] OTHER -> {}

C25_Retried(i) ==
  /\ inflight.kind = "StartFilePicker" /\ NewCalls[i].op = "probe"
  /\ \E j \in (i + 1)..Len(NewCalls) : NewCalls[j].op = "probe"

C25_FailedCalls ==
  {i \in 1..Len(NewCalls) : ~NewCalls[i].ok /\ ~C25_Retried(i)}

C25_Step ==
  (pc = "effect" /\ pc' = "drain") =>
    \A i \in C25_FailedCalls :
      /\ app'.dialog = "Error"
      /\ app'.last_error.some /\ app'.last_error.v \in C25_RaisedBy(NewCalls[i].op)
      /\ ReturnedErr(app'.last_error.v)
      /\ \A j \in (i + 1)..Len(NewCalls) : NewCalls[j].op # NewCalls[i].op

C25_NoErrorSwallowed == [][C25_Step]_vars

(* What the code keeps of it: after a failed call the effect fails with    *)
(* some error, the drain ends in the Error dialog, and the call is not     *)
(* made again.                                                             *)
C25_EndsInErrorStep ==
  (pc = "effect" /\ pc' = "drain") =>
    \A i \in C25_FailedCalls :
      /\ app'.dialog = "Error" /\ app'.last_error.some
      /\ ReturnedErr(app'.last_error.v) /\ queue' = <<>>
      /\ \A j \in (i + 1)..Len(NewCalls) : NewCalls[j].op # NewCalls[i].op

C25_EndsInError == [][C25_EndsInErrorStep]_vars

----------------------------------------------------------------------------
(* C26.  The probe of StartFilePicker makes at most 3 probe calls: it      *)
(* stops at the first success, sleeps 500 ms after each of the first two   *)
(* failures and not after the third, sleeps at no other time, and fails    *)
(* with the listing error exactly when all 3 attempts failed.              *)
C26_Probes == {i \in 1..Len(NewCalls) : NewCalls[i].op = "probe"}
C26_Sleeps == {i \in 1..Len(NewCalls) : NewCalls[i].op = "sleep"}
C26_Nth(i) == Cardinality({j \in C26_Probes : j <= i})

C26_Step ==
  Returned("StartFilePicker") =>
    /\ Cardinality(C26_Probes) <= ProbeAttempts
    /\ \A i \in C26_Probes :
         /\ NewCalls[i].arg = inflight.output_folder
         /\ NewCalls[i].ok => \A j \in C26_Probes : j <= i
         /\ (~NewCalls[i].ok /\ C26_Nth(i) < ProbeAttempts)
              => /\ i + 2 <= Len(NewCalls)
                 /\ NewCalls[i + 1] = Call("sleep", ProbeDelayMs, TRUE)
                 /\ NewCalls[i + 2].op = "probe"
         /\ (~NewCalls[i].ok /\ C26_Nth(i) = ProbeAttempts) => i = Len(NewCalls)
    /\ \A i \in C26_Sleeps : i > 1 /\ (i - 1) \in C26_Probes /\ ~NewCalls[i - 1].ok
    /\ ReturnedErr(ErrListing)
         <=> /\ Cardinality(C26_Probes) = ProbeAttempts
             /\ \A i \in C26_Probes : ~NewCalls[i].ok

C26_ProbeIsBounded == [][C26_Step]_vars

(* Two attempts failed, the third answered, and the picker was built.      *)
C26_Witness ==
  /\ pc = "drain" /\ Len(calls) > 5
  /\ SubSeq(calls, 1, 5) = <<Call("probe", DownloadDir, FALSE),
                             Call("sleep", ProbeDelayMs, TRUE),
                             Call("probe", DownloadDir, FALSE),
                             Call("sleep", ProbeDelayMs, TRUE),
                             Call("probe", DownloadDir, TRUE)>>
  /\ app.mode = "FilePicker"

----------------------------------------------------------------------------
(* C27.  StartDownload adds the torrent paused, re-reads its inclusion set *)
(* and starts it only when that set is the requested one: the engine calls *)
(* of every execution are a prefix of add(paused), details, then start or  *)
(* delete; start follows only a report equal to the requested set, delete  *)
(* only a report that differs from it.                                     *)
C27_Step ==
  Returned("StartDownload") =>
    LET n == Len(NewCalls)
        expected == Range(inflight.only_files)
    IN /\ n <= 3
       /\ n >= 1 => /\ NewCalls[1].op = "add" /\ NewCalls[1].paused
                    /\ NewCalls[1].arg = inflight.only_files
                    /\ NewCalls[1].output_folder = inflight.output_folder
       /\ n >= 2 => /\ NewCalls[1].ok
                    /\ NewCalls[2].op = "details"
       /\ n = 3 => /\ NewCalls[2].ok
                   /\ NewCalls[3].op \in {"start", "delete"}
                   /\ NewCalls[3].arg = NewCalls[2].arg
                   /\ NewCalls[3].op = "start" <=> NewCalls[2].reported = expected
       /\ ReturnedOk => /\ n = 3 /\ NewCalls[3] = Call("start", NewCalls[2].arg, TRUE)

C27_StartOnlyAfterVerification == [][C27_Step]_vars

(* Added paused, verified, started.                                        *)
C27_Witness ==
  /\ pc = "drain" /\ Len(calls) = 3
  /\ calls[1].op = "add" /\ calls[1].paused
  /\ calls[2].op = "details" /\ calls[2].reported = Range(calls[1].arg)
  /\ calls[3] = Call("start", calls[2].arg, TRUE)
  /\ app.status = "Torrent added"

----------------------------------------------------------------------------
(* C28, as the specification has it: applying FilePickerConfirm enqueues   *)
(* StartDownload for the included indices and closes the picker at once:   *)
(* after the action, before the effect runs, mode and dialog are no longer *)
(* FilePicker.                                                             *)
C28_Confirming == Taking("FilePickerConfirm") /\ trace' # trace /\ app.file_picker.some

C28_Snapshot ==
  <<RunEffect(EffStartDownload(app.file_picker.v.magnet, app.file_picker.v.output_folder,
                               included_indices(app.file_picker.v.files)))>>

C28_AsClaimedStep ==
  C28_Confirming => /\ queue' = C28_Snapshot
                    /\ app'.mode # "FilePicker" /\ app'.dialog # "FilePicker"

C28_AsClaimed == [][C28_AsClaimedStep]_vars

(* C28, as the code has it: applying FilePickerConfirm enqueues            *)
(* StartDownload for the included indices and changes nothing else; while  *)
(* the effect runs, mode and dialog are FilePicker and the picker is that  *)
(* of the effect's source; the picker is closed when the effect succeeds   *)
(* (Normal, no dialog, no picker), and an effect that fails leaves the     *)
(* Error dialog.                                                           *)
C28_Step ==
  /\ C28_Confirming => queue' = C28_Snapshot /\ app' = app
  /\ (Returned("StartDownload") /\ ReturnedOk)
       => app'.mode = "Normal" /\ app'.dialog = "None" /\ ~app'.file_picker.some
  /\ (Returned("StartDownload") /\ ~ReturnedOk)
       => app'.mode = "Normal" /\ app'.dialog = "Error" /\ ~app'.file_picker.some

C28_OpenWhileStarting ==
  Running("StartDownload")
    => /\ app.mode = "FilePicker" /\ app.dialog = "FilePicker"
       /\ app.file_picker.some /\ app.file_picker.v.magnet = inflight.magnet

C28_PickerClosesOnSuccess == [][C28_Step]_vars /\ []C28_OpenWhileStarting

(* The download is being started and the picker is still open.             *)
C28_Witness ==
  /\ Running("StartDownload") /\ trace[1] = Act("FilePickerConfirm")
  /\ app.mode = "FilePicker" /\ app.dialog = "FilePicker"

----------------------------------------------------------------------------
(* The translator on its own (input.rs:6-140): one event, any of the       *)
(* modelled ones, translated in any state of the type App as far as the    *)
(* translator reads it: any combination of the overlay flags, mode, focus, *)
(* dialog tag and debounce timestamp, with or without text in the buffer.  *)
(* The program reaches only the combinations with at most one overlay; the *)
(* order of the tests in actions_from_key shows in the others.             *)

DispatchEnv ==
  [events |-> AllKeys \cup {Paste(SourceA), Resize, OtherEvent},
   buffered |-> {}, kinds |-> {Stats("Live", FALSE, FALSE)},
   files |-> {}, typed |-> CharKeys, delays |-> {50, TickMs},
   track_keys |-> TRUE, keep_status |-> FALSE, chan_cap |-> MaxChan,
   restored |-> {1}, init_dirs |-> {{DownloadDir}}]

DispatchApps ==
  {[NewApp EXCEPT !.show_help = f[1], !.confirm_delete = f[2], !.confirm_quit = f[3],
                  !.last_error = IF f[4] THEN Some(ErrNoFiles) ELSE NoneStr,
                  !.mode = m, !.focus = fo, !.dialog = dg, !.last_char_at = at,
                  !.input = inp, !.input_cursor = Len(inp)]
     : f \in [1..4 -> BOOLEAN],
       m \in {"Normal", "EnterMagnet", "EnterTorrentDir", "FilePicker"},
       fo \in {"Torrents", "Filters"},
       dg \in {"None", "Help"},
       at \in {NoInstant, 0},
       inp \in {<<>>, <<"z">>}}

InitDispatch ==
  /\ app \in DispatchApps
  /\ queue = <<>>
  /\ pc = "idle"
  /\ inflight = NoEffect
  /\ chan = <<>>
  /\ engine = RestoredEngine(1)
  /\ dirs = {DownloadDir}
  /\ calls = <<>>
  /\ trace = <<>>
  /\ hist = <<>>
  /\ env = DispatchEnv

SpecDispatch == InitDispatch /\ [][RecvEvent]_vars

(* C29.  Key dispatch follows the precedence Help, Error, ConfirmDelete,   *)
(* ConfirmQuit: with the help open a key yields only HelpClose or          *)
(* HelpScroll or nothing, whatever else is set; with an error and no help  *)
(* only ErrorClear or nothing; with the delete confirmation and neither of *)
(* these only ConfirmDeleteSelect, Confirm, Cancel or nothing; with the    *)
(* quit confirmation and none of these only ConfirmQuitSelect, Confirm,    *)
(* Cancel or nothing.                                                      *)
C29_Only(types) == \A i \in 1..Len(queue') : queue'[i].type \in types

C29_Step ==
  (Receiving /\ hist'[1].ev.type = "Key") =>
    /\ app.show_help => C29_Only({"HelpClose", "HelpScroll"})
    /\ (~app.show_help /\ app.last_error.some) => C29_Only({"ErrorClear"})
    /\ (~app.show_help /\ ~app.last_error.some /\ app.confirm_delete)
         => C29_Only({"ConfirmDeleteSelect", "ConfirmDeleteConfirm", "ConfirmDeleteCancel"})
    /\ ( /\ ~app.show_help /\ ~app.last_error.some /\ ~app.confirm_delete
         /\ app.confirm_quit )
         => C29_Only({"ConfirmQuitSelect", "ConfirmQuitConfirm", "ConfirmQuitCancel"})

C29_OverlayPrecedence == [][C29_Step]_vars

(* x pressed with the help open over an error: the help is closed, the     *)
(* error is not dismissed.                                                 *)
C29_Witness ==
  /\ pc = "drain" /\ hist # <<>> /\ hist[1].ev = PressChar("x")
  /\ app.show_help /\ app.last_error.some
  /\ queue = <<Act("HelpClose")>>

(* C30.  Translating an event changes no field of the state but the        *)
(* debounce timestamp and, with a dropped key, the status note: mode,      *)
(* dialog, overlays, torrent cache, selection, filter, focus, input        *)
(* buffer, file picker and pending wizard state are as before.  The status *)
(* changes only to the note of a dropped key, and then no action is        *)
(* produced.                                                               *)
C30_Translating == pc = "idle" /\ pc' = "drain"

C30_Rest(a) == [a EXCEPT !.last_char_at = NoInstant, !.status = ""]

C30_Step ==
  C30_Translating =>
    /\ C30_Rest(app') = C30_Rest(app)
    /\ app'.status # app.status => (app'.status = "Paste ignored" /\ queue' = <<>>)

C30_TranslationKeepsState == [][C30_Step]_vars

(* A pasted text has been translated with the wizard open and text in the  *)
(* buffer: the buffer is as it was and the action waits in the queue.      *)
C30_Witness ==
  /\ pc = "drain" /\ trace = <<>>
  /\ queue = <<ActArg("Paste", SourceA)>>
  /\ app.mode = "EnterMagnet" /\ app.input # <<>> /\ app.input # SourceA

(* A key has been dropped by the debounce: the note is on the status line. *)
C30_Dropped ==
  /\ pc = "drain" /\ trace = <<>> /\ queue = <<>>
  /\ app.status = "Paste ignored" /\ app.last_char_at = 0

----------------------------------------------------------------------------
(* Listing: an operator who moves through three restored torrents, filters *)
(* them, pauses, resumes and removes them, while the timer refreshes the   *)
(* cache; the engine lists the torrents in any order and reports each one  *)
(* downloading or paused, anew with every listing.                         *)
(* ListNext is Next without the actions these keys never lead to.          *)

ListEnv ==
  [events |-> {PressChar(c) : c \in {"j", "k", "1", "4", "d", "y", "p", "r"}}
              \cup {Press(t) : t \in {"Enter", "Esc"}},
   buffered |-> {Press("Enter")},
   kinds |-> {Stats("Live", FALSE, FALSE), Stats("Paused", FALSE, FALSE)},
   files |-> {}, typed |-> {}, delays |-> {TickMs},
   track_keys |-> FALSE, keep_status |-> FALSE, chan_cap |-> MaxChan,
   restored |-> {3}, init_dirs |-> {{DownloadDir}}]

ListNext ==
  \/ Start \/ Tick \/ InputThread \/ RecvEvent \/ DrainEnd
  \/ MoveSelection \/ SetFilter \/ Refresh \/ TogglePause
  \/ ConfirmDeleteOpen \/ ConfirmDeleteSelect \/ ConfirmDeleteConfirm \/ ConfirmDeleteCancel
  \/ ErrorClear \/ EffectBegin \/ RunRefresh \/ RunTogglePause
  \/ RunStopSelected \/ RunDeleteSelectedFiles

SpecList == InitIn(ListEnv) /\ [][ListNext]_vars
(* C31.  A refresh replaces the cache with the engine's listing and        *)
(* resolves the selection again.  With an empty listing the index is 0.    *)
(* If the row selected before is still listed and passes the filter, it    *)
(* stays selected at its new index; if it is listed and fails the filter,  *)
(* the first row passing the filter is selected (index 0 if none does).    *)
(* If it is not listed, the index is clamped into the new list and stays   *)
(* there if that row passes the filter; only if it does not, the first row *)
(* passing the filter is selected (index 0 if none does).                  *)
C31_Refreshing == (pc \in {"start", "idle"} /\ pc' = "idle") \/ Returned("Refresh")

C31_Listed(id) == \E i \in 1..Len(app'.torrents) : app'.torrents[i].id = id
C31_IndexOf(id) == (CHOOSE i \in 1..Len(app'.torrents) : app'.torrents[i].id = id) - 1
C31_Passes(i) == filter_match(app', app'.torrents[i + 1])
C31_FirstPassing ==
  IF \E i \in 0..(Len(app'.torrents) - 1) : C31_Passes(i)
  THEN CHOOSE i \in 0..(Len(app'.torrents) - 1) :
         C31_Passes(i) /\ \A j \in 0..(i - 1) : ~C31_Passes(j)
  ELSE 0
C31_Clamped == Min(app.selected, Len(app'.torrents) - 1)
C31_StillListed == has_selected_torrent(app) /\ C31_Listed(selected_torrent(app).id)

C31_Wholesale ==
  /\ {app'.torrents[i].id : i \in 1..Len(app'.torrents)} = TrackedIds(engine)
  /\ Len(app'.torrents) = Cardinality(engine.torrents)
  /\ \A i \in 1..Len(app'.torrents) :
       Tracked(app'.torrents[i].id, app'.torrents[i].info_hash,
               app'.torrents[i].output_folder) \in engine.torrents

C31_Kept ==
  (C31_StillListed /\ C31_Passes(C31_IndexOf(selected_torrent(app).id)))
     => app'.selected = C31_IndexOf(selected_torrent(app).id)

(* As the claim has it: in every other case the first passing row.         *)
C31_AsClaimedStep ==
  (C31_Refreshing /\ app'.torrents # <<>>) =>
    /\ C31_Kept
    /\ ~(C31_StillListed /\ C31_Passes(C31_IndexOf(selected_torrent(app).id)))
         => app'.selected = C31_FirstPassing

C31_AsClaimed == [][C31_AsClaimedStep]_vars

C31_Step ==
  C31_Refreshing =>
    /\ C31_Wholesale
    /\ app'.torrents = <<>> => app'.selected = 0
    /\ app'.torrents # <<>> =>
         /\ C31_Kept
         /\ (C31_StillListed /\ ~C31_Passes(C31_IndexOf(selected_torrent(app).id)))
              => app'.selected = C31_FirstPassing
         /\ ~C31_StillListed =>
              app'.selected = IF C31_Passes(C31_Clamped) THEN C31_Clamped ELSE C31_FirstPassing

C31_RefreshResolvesSelection == [][C31_Step]_vars

(* The refresh asked for with r has run after a torrent was removed: two   *)
(* rows are left, the second one is selected although the first passes the *)
(* filter too.                                                             *)
C31_Witness ==
  /\ pc = "drain" /\ trace = <<Act("Refresh"), RunEffect(Eff("Refresh"))>>
  /\ Len(app.torrents) = 2 /\ Cardinality(engine.torrents) = 2
  /\ app.selected = 1
  /\ filter_match(app, app.torrents[1]) /\ filter_match(app, app.torrents[2])
----------------------------------------------------------------------------
(* Pausing: an operator who selects among up to two restored torrents and  *)
(* pauses or resumes the selected one, and dismisses the error if the      *)
(* engine refuses; the engine reports each torrent in any of its states or *)
(* without statistics.                                                     *)
(* PauseNext is Next without the actions these keys never lead to.         *)

PauseEnv ==
  [events |-> {PressChar("p"), PressChar("j"), Press("Esc")},
   buffered |-> {PressChar("p")},
   kinds |-> {Stats("Live", FALSE, FALSE), Stats("Paused", FALSE, FALSE),
              Stats("Initializing", FALSE, FALSE), Stats("Error", FALSE, FALSE), NoStats},
   files |-> {}, typed |-> {}, delays |-> {TickMs},
   track_keys |-> FALSE, keep_status |-> FALSE, chan_cap |-> MaxChan,
   restored |-> {0, 1, 2}, init_dirs |-> {{DownloadDir}}]

PauseNext ==
  \/ Start \/ Tick \/ InputThread \/ RecvEvent \/ DrainEnd
  \/ MoveSelection \/ TogglePause \/ ErrorClear \/ EffectBegin \/ RunTogglePause

SpecPause == InitIn(PauseEnv) /\ [][PauseNext]_vars

(* C32.  TogglePause acts on the cached state of the selected row: Paused, *)
(* exactly one start call for that torrent; Live or Initializing, exactly  *)
(* one pause call for it; Error, no call and the status that says why;     *)
(* no selected row, or a row without statistics: no call, no error, and    *)
(* the state as it was.                                                    *)
C32_OneCall(op) ==
  /\ Len(NewCalls) = 1
  /\ NewCalls[1].op = op
  /\ NewCalls[1].arg = selected_torrent(app).id

(* The same state but for the age of the debounce timestamp.               *)
C32_Same(a, b) == [a EXCEPT !.last_char_at = NoInstant] = [b EXCEPT !.last_char_at = NoInstant]

C32_Step ==
  Returned("TogglePause") =>
    IF ~has_selected_torrent(app) \/ selected_torrent(app).stats.state = "None"
    THEN NewCalls = <<>> /\ ReturnedOk /\ C32_Same(app', app)
    ELSE /\ selected_torrent(app).stats.state = "Paused" => C32_OneCall("start")
         /\ selected_torrent(app).stats.state \in {"Live", "Initializing"} => C32_OneCall("pause")
         /\ selected_torrent(app).stats.state = "Error" =>
              /\ NewCalls = <<>> /\ ReturnedOk
              /\ C32_Same(app', [app EXCEPT !.status = "Cannot pause: torrent error"])

C32_TogglePauseByCachedState == [][C32_Step]_vars

(* The toggle has returned for a torrent cached in the Error state.        *)
C32_Witness ==
  /\ pc = "drain" /\ trace = <<Act("TogglePause"), RunEffect(Eff("TogglePause"))>>
  /\ has_selected_torrent(app) /\ selected_torrent(app).stats.state = "Error"
  /\ calls = <<>> /\ app.status = "Cannot pause: torrent error"

(* The toggle has resumed a paused torrent and then returned for a cache   *)
(* without rows.                                                           *)
C32_Resumed ==
  /\ pc = "drain" /\ trace = <<Act("TogglePause"), RunEffect(Eff("TogglePause"))>>
  /\ has_selected_torrent(app) /\ selected_torrent(app).stats.state = "Paused"
  /\ calls = <<Call("start", selected_torrent(app).id, TRUE)>>
C32_NothingSelected ==
  /\ pc = "drain" /\ trace = <<Act("TogglePause"), RunEffect(Eff("TogglePause"))>>
  /\ ~has_selected_torrent(app) /\ calls = <<>>
----------------------------------------------------------------------------
(* Submitting: an operator who opens the wizard, pastes a text and submits *)
(* it: blanks, a magnet link between blanks, a magnet link with a blank in *)
(* it, something that is no torrent, the path of a .torrent file, the path *)
(* of a directory; and who goes on through the wizard with Enter and Esc.  *)
(* SubmitNext is Next without the actions these keys never lead to.        *)

Blanks == <<" ", " ">>
BrokenA == <<"m", " ">> \o Tail(SourceA)
NoTorrent == <<"z">>

SubmitEnv ==
  [events |-> {PressChar("a"), Press("Enter"), Press("Esc")}
              \cup {Paste(t) : t \in {Blanks, PaddedA, BrokenA, NoTorrent,
                                      TorrentFile, DownloadDir}},
   buffered |-> {Press("Enter")},
   kinds |-> {Stats("Live", FALSE, FALSE)},
   files |-> {TorrentFile}, typed |-> {}, delays |-> {TickMs},
   track_keys |-> FALSE, keep_status |-> FALSE, chan_cap |-> MaxChan,
   restored |-> {0}, init_dirs |-> {{DownloadDir}}]

SubmitNext ==
  \/ Start \/ Tick \/ InputThread \/ RecvEvent \/ DrainEnd
  \/ ApplyPaste \/ ErrorClear \/ StartAdd \/ InputEnter \/ InputCancel
  \/ FilePickerCancel \/ FilePickerConfirm \/ PreflightAddResult
  \/ EffectBegin \/ RunPreflightAdd \/ RunStartFilePicker \/ RunStartDownload

SpecSubmit == InitIn(SubmitEnv) /\ [][SubmitNext]_vars

(* C33.  InputEnter at the magnet step empties the buffer in every case.   *)
(* Text that is empty once trimmed, or that is neither a magnet or http(s) *)
(* URL nor the path of an existing file, ends in the Error dialog with     *)
(* nothing enqueued; any other text enqueues exactly one PreflightAdd      *)
(* carrying the trimmed text, with the status "Checking torrent...".       *)
C33_Submitting == Taking("InputEnter") /\ app.mode = "EnterMagnet" /\ trace' # trace

C33_Value == Trim(app.input)

C33_IsUrl ==
  \E scheme \in {MagnetScheme, HttpScheme, HttpsScheme} :
    IsPrefix(scheme, SelectSeq(C33_Value, LAMBDA c : ~is_whitespace(c)))

C33_Valid == C33_Value # <<>> /\ (C33_IsUrl \/ C33_Value \in env.files)

C33_Step ==
  C33_Submitting =>
    /\ app'.input = <<>> /\ app'.input_cursor = 0
    /\ pc' = "drain"
    /\ ~C33_Valid =>
         /\ queue' = <<>>
         /\ app'.dialog = "Error" /\ app'.last_error.some /\ app'.mode = "Normal"
         /\ C33_Value = <<>> => app'.last_error.v = ErrEmptyMagnet
    /\ C33_Valid =>
         /\ queue' = <<RunEffect(EffPreflightAdd(C33_Value))>>
         /\ app'.status = "Checking torrent..."
         /\ ~app'.last_error.some /\ app'.dialog = "None"

C33_SubmitValidates == [][C33_Step]_vars

(* Something that is no torrent has been submitted.                        *)
C33_Witness ==
  /\ pc = "drain" /\ trace = <<Act("InputEnter")>> /\ queue = <<>>
  /\ app.dialog = "Error" /\ app.last_error = Some(ErrBadInput)
  /\ app.input = <<>>

(* The other submissions: blanks, a directory, a file, a padded link.      *)
C33_Empty ==
  pc = "drain" /\ trace = <<Act("InputEnter")>> /\ app.last_error = Some(ErrEmptyMagnet)
C33_Directory ==
  pc = "drain" /\ trace = <<Act("InputEnter")>> /\ app.last_error = Some(ErrReadFile)
C33_File ==
  /\ pc = "drain" /\ trace = <<Act("InputEnter")>>
  /\ queue = <<RunEffect(EffPreflightAdd(TorrentFile))>>
C33_Trimmed ==
  /\ pc = "drain" /\ trace = <<Act("InputEnter")>>
  /\ queue = <<RunEffect(EffPreflightAdd(SourceA))>>
C33_Broken ==
  /\ pc = "drain" /\ trace = <<Act("InputEnter")>>
  /\ queue = <<RunEffect(EffPreflightAdd(BrokenA))>>
----------------------------------------------------------------------------
(* Editing: an operator who opens the wizard and edits the text with every *)
(* editing key, types z and the two-byte character, pastes a short text or *)
(* a magnet link no peer answers for, and submits or cancels.              *)
(* EditNext is Next without the actions these keys never lead to.          *)

WideText == <<"é", "z">>
DeadLink == MagnetScheme \o <<"Z">>

EditEnv ==
  [events |-> {PressChar(c) : c \in {"a", "z", "é"}}
              \cup {Press(t) : t \in {"Backspace", "Delete", "Left", "Right", "Home", "End",
                                      "Enter", "Esc"}}
              \cup {Paste(WideText), Paste(DeadLink)},
   buffered |-> {Press("Enter"), Press("Left")},
   kinds |-> {Stats("Live", FALSE, FALSE)},
   files |-> {}, typed |-> {"z", "é"}, delays |-> {TickMs},
   track_keys |-> FALSE, keep_status |-> FALSE, chan_cap |-> MaxChan,
   restored |-> {0}, init_dirs |-> {{DownloadDir}}]

EditNext ==
  \/ Start \/ Tick \/ InputThread \/ RecvEvent \/ DrainEnd
  \/ ApplyPaste \/ ErrorClear \/ StartAdd
  \/ InputChar \/ InputBackspace \/ InputDelete \/ InputLeft \/ InputRight
  \/ InputHome \/ InputEnd \/ InputEnter \/ InputCancel
  \/ EffectBegin \/ RunPreflightAdd

SpecEdit == InitIn(EditEnv) /\ [][EditNext]_vars

(* C34.  The input cursor, counted in characters, is never below 0 and     *)
(* never beyond the number of characters of the buffer.  InputChar puts    *)
(* its character at the cursor and moves the cursor one to the right;      *)
(* InputBackspace with the cursor at 0 and InputDelete with the cursor at  *)
(* the end change neither buffer nor cursor.                               *)
C34_CursorInBuffer == 0 <= app.input_cursor /\ app.input_cursor <= Len(app.input)

C34_Edit(type) == Taking(type) /\ trace' # trace

C34_Step ==
  /\ C34_Edit("InputChar") =>
       /\ app'.input = SubSeq(app.input, 1, app.input_cursor) \o <<Head(queue).arg>>
                         \o SubSeq(app.input, app.input_cursor + 1, Len(app.input))
       /\ app'.input_cursor = app.input_cursor + 1
  /\ (C34_Edit("InputBackspace") /\ app.input_cursor = 0) =>
       (app'.input = app.input /\ app'.input_cursor = 0)
  /\ (C34_Edit("InputDelete") /\ app.input_cursor = Len(app.input)) =>
       (app'.input = app.input /\ app'.input_cursor = app.input_cursor)

C34_CursorStaysInBuffer == [][C34_Step]_vars /\ []C34_CursorInBuffer

(* z has been typed in front of the two-byte character.                    *)
C34_Witness ==
  /\ pc = "drain" /\ trace = <<ActArg("InputChar", "z")>>
  /\ app.input = <<"z", "é">> /\ app.input_cursor = 1

(* Backspace at the start and Delete at the end of a buffer with text.     *)
C34_BackspaceAtStart ==
  /\ pc = "drain" /\ trace = <<Act("InputBackspace")>>
  /\ app.input # <<>> /\ app.input_cursor = 0
C34_DeleteAtEnd ==
  /\ pc = "drain" /\ trace = <<Act("InputDelete")>>
  /\ app.input # <<>> /\ app.input_cursor = Len(app.input)
----------------------------------------------------------------------------
(* The session of SpecErrors with a loop that goes on: handle_event is     *)
(* awaited by main (main.rs:54), so whenever an action is queued the next  *)
(* step of the drain is taken, and an effect in flight returns, every      *)
(* engine call returning.                                                  *)

ErrorsDrain ==
  \/ DrainEnd
  \/ ApplyPaste \/ HelpOpen \/ HelpClose \/ ErrorClear
  \/ ConfirmDeleteOpen \/ ConfirmDeleteSelect \/ ConfirmDeleteConfirm \/ ConfirmDeleteCancel
  \/ ConfirmQuitOpen \/ ConfirmQuitSelect \/ ConfirmQuitConfirm \/ ConfirmQuitCancel
  \/ TogglePause \/ StartAdd \/ InputChar \/ InputEnter \/ InputCancel
  \/ FilePickerCancel \/ FilePickerToggle \/ FilePickerAll \/ FilePickerConfirm
  \/ PreflightAddResult
  \/ EffectBegin \/ RunTogglePause \/ RunStopSelected \/ RunDeleteSelectedFiles
  \/ RunPreflightAdd \/ RunStartDownload

(* Weak fairness of RunStartFilePicker, written out: the step is possible  *)
(* exactly while that effect is in flight.                                 *)
StartFilePickerReturns ==
  \/ []<>(~Running("StartFilePicker"))
  \/ []<><<RunStartFilePicker>>_vars

SpecErrorsLive == SpecErrors /\ WF_vars(ErrorsDrain) /\ StartFilePickerReturns

(* C35.  The drain started by an event terminates: the queue never holds   *)
(* more than one action (an event yields at most one, an applied action    *)
(* pushes at most one), no more than three actions are applied for one     *)
(* event, and a loop that is draining or awaiting an effect comes to rest  *)
(* (back at select!, or out of the loop after a confirmed quit).           *)
C35_Busy == pc \in {"drain", "effect"}

C35_AppliedActions == Len(SelectSeq(trace, LAMBDA x : x.type # "Err"))

C35_Bounded == Len(queue) <= 1 /\ C35_AppliedActions <= 3

C35_DrainTerminates == []C35_Bounded /\ (C35_Busy ~> ~C35_Busy)

(* The longest chain has been applied and nothing is left in the queue.    *)
C35_Witness ==
  /\ pc = "drain" /\ queue = <<>> /\ C35_AppliedActions = 3
  /\ trace[3].type = "PreflightAddResult"
  /\ app.mode = "EnterTorrentDir"
----------------------------------------------------------------------------
(* C36.  StopSelected, DeleteSelectedFiles and TogglePause call the engine *)
(* only for a row that passes the active filter; while no row passes it,   *)
(* ConfirmDeleteOpen does not open the dialog.                             *)
C36_Acting ==
  Returned("StopSelected") \/ Returned("DeleteSelectedFiles") \/ Returned("TogglePause")

C36_OnVisibleRow ==
  (C36_Acting /\ NewCalls # <<>>) =>
    (has_selected_torrent(app) /\ filter_match(app, selected_torrent(app)))

C36_NoDialogWithoutRows ==
  (Taking("ConfirmDeleteOpen") /\ trace' # trace /\ filtered_indices(app) = <<>>)
    => ~app'.confirm_delete

C36_OnlyVisibleRows == [][C36_OnVisibleRow /\ C36_NoDialogWithoutRows]_vars

(* The two halves on their own.                                            *)
C36_CallsOnlyVisibleRows == [][C36_OnVisibleRow]_vars
C36_DialogOnlyWithRows == [][C36_NoDialogWithoutRows]_vars

(* What does hold: each of these calls is for the row at the selected      *)
(* index of the cache, and without such a row there is no call and no      *)
(* dialog.                                                                 *)
C36_OnSelectedRow ==
  /\ (C36_Acting /\ NewCalls # <<>>) =>
       /\ has_selected_torrent(app)
       /\ \A i \in 1..Len(NewCalls) : NewCalls[i].arg = selected_torrent(app).id
  /\ (Taking("ConfirmDeleteOpen") /\ trace' # trace /\ ~has_selected_torrent(app))
       => ~app'.confirm_delete

C36_OnlySelectedRow == [][C36_OnSelectedRow]_vars

(* A torrent has been forgotten that the filter in force did not show.     *)
C36_HiddenRowRemoved ==
  /\ pc = "drain" /\ calls # <<>> /\ calls[1].op = "forget" /\ calls[1].ok
  /\ filtered_indices(app) = <<>>
----------------------------------------------------------------------------
(* C37.  Whatever refreshes run between ConfirmDeleteOpen and              *)
(* ConfirmDeleteConfirm, the torrent forgotten or deleted is the one that  *)
(* was selected when the dialog opened.  The call is made for the row      *)
(* selected when the effect runs (C36_OnlySelectedRow), and the selection  *)
(* cannot change between the confirmation and the effect, so the claim is  *)
(* that no step taken while the dialog is open changes the id of the       *)
(* selected row.                                                           *)
C37_DialogStaysOpen == app.confirm_delete /\ app'.confirm_delete

C37_SameTorrent ==
  /\ has_selected_torrent(app')
  /\ selected_torrent(app').id = selected_torrent(app).id

C37_Step == C37_DialogStaysOpen => C37_SameTorrent

C37_ConfirmedIsShown == [][C37_Step]_vars

(* The same for a dialog opened on a row the filter shows.                 *)
C37_ShownIsConfirmed ==
  [][(C37_DialogStaysOpen /\ filter_match(app, selected_torrent(app))) => C37_SameTorrent]_vars

(* What does hold: while the dialog is open, a step changes the selected   *)
(* torrent only if the refresh no longer lists it or lists it in a state   *)
(* the filter does not pass.                                               *)
C37_StillEligible ==
  \E i \in 1..Len(app'.torrents) :
    /\ app'.torrents[i].id = selected_torrent(app).id
    /\ filter_match(app', app'.torrents[i])

C37_KeptWhileEligible ==
  [][(C37_DialogStaysOpen /\ C37_StillEligible) => C37_SameTorrent]_vars
----------------------------------------------------------------------------
(* C38.  As claimed: the engine's delete is called only by the             *)
(* DeleteSelectedFiles effect, that is, after a confirmed yes.             *)
C38_Deletes == {i \in 1..Len(NewCalls) : NewCalls[i].op = "delete"}

C38_DeleteOnlyAfterYes ==
  [][C38_Deletes # {} => Running("DeleteSelectedFiles")]_vars

(* C38.  The engine's delete is called for a torrent of the list only by   *)
(* DeleteSelectedFiles, which is dispatched only by ConfirmDeleteConfirm   *)
(* in an open dialog whose choice is yes; the choice is yes only inside an *)
(* open dialog and only by ConfirmDeleteSelect(yes); ConfirmDeleteOpen     *)
(* leaves the choice at no, so that open followed by confirm dispatches    *)
(* StopSelected; ConfirmDeleteCancel dispatches nothing.  The one other    *)
(* delete is StartDownload's, for the torrent it has just added itself.    *)
C38_Compensation(i) ==
  /\ Running("StartDownload")
  /\ NewCalls[i].arg \notin TrackedIds(engine)
  /\ \E j \in 1..(i - 1) : NewCalls[j].op = "details" /\ NewCalls[j].arg = NewCalls[i].arg

C38_Dispatches(kind) ==
  \E i \in 1..Len(queue') : queue'[i] = RunEffect(Eff(kind))

C38_Step ==
  /\ \A i \in C38_Deletes : Running("DeleteSelectedFiles") \/ C38_Compensation(i)
  /\ (C38_Dispatches("DeleteSelectedFiles") /\ queue' # queue) =>
       (Taking("ConfirmDeleteConfirm") /\ app.confirm_delete /\ app.delete_choice)
  /\ (Taking("ConfirmDeleteConfirm") /\ ~app.delete_choice) =>
       queue' = <<RunEffect(Eff("StopSelected"))>>
  /\ (Taking("ConfirmDeleteOpen") /\ trace' # trace) => ~app'.delete_choice
  /\ (app'.delete_choice /\ ~app.delete_choice) =>
       (Taking("ConfirmDeleteSelect") /\ app.confirm_delete /\ Head(queue).arg = TRUE)
  /\ (Taking("ConfirmDeleteCancel") /\ trace' # trace) =>
       (queue' = <<>> /\ ~app'.delete_choice /\ ~app'.confirm_delete)

C38_ChoiceOnlyInDialog == app.delete_choice => app.confirm_delete

C38_DeleteNeedsYes == [][C38_Step]_vars /\ []C38_ChoiceOnlyInDialog

(* The files of the selected torrent have been deleted after y and Enter.  *)
C38_Witness ==
  /\ pc = "drain" /\ queue = <<>>
  /\ trace = <<Act("ConfirmDeleteConfirm"), RunEffect(Eff("DeleteSelectedFiles"))>>
  /\ Len(calls) = 1 /\ calls[1].op = "delete" /\ calls[1].ok

(* StartDownload has deleted the torrent it had added.                     *)
C38_Compensated ==
  /\ pc = "drain" /\ Len(calls) >= 1 /\ Last(calls).op = "delete"
  /\ Len(trace) >= 2 /\ trace[1] = Act("FilePickerConfirm")



(***************************************************************************)
(* C39: a key is translated against the mode and overlays in force when    *)
(* it is taken from the input channel, not when it was pressed.  An Enter  *)
(* pressed while StartFilePicker runs waits in the channel; the effect     *)
(* having succeeded, the picker it built lists every file with the         *)
(* engine's own inclusion flag, the Enter is translated to                 *)
(* FilePickerConfirm without changing the state, and that action           *)
(* dispatches StartDownload with the picker's magnet, folder and included  *)
(* indices.                                                                *)
(***************************************************************************)
C39_Taken(ev) ==
  /\ pc = "idle" /\ pc' = "drain"
  /\ Events(chan) # <<>> /\ recv(chan).ev = ev

C39_NoOverlay ==
  ~app.show_help /\ ~app.last_error.some /\ ~app.confirm_delete /\ ~app.confirm_quit

C39_Built(p) ==
  \E meta \in {MetaA, MetaB, MetaC} :
     p.files = build_picker(p.magnet, p.output_folder, meta).files

C39_PickerOpened ==
  Returned("StartFilePicker") /\ ReturnedOk

C39_Step ==
  /\ C39_PickerOpened =>
        /\ app'.mode = "FilePicker" /\ app'.file_picker.some
        /\ app'.file_picker.v.magnet = inflight.magnet
        /\ app'.file_picker.v.cursor = 0
        /\ C39_Built(app'.file_picker.v)
        /\ chan' = chan
  /\ C39_Taken(Press("Enter")) /\ C39_NoOverlay =>
        /\ app.mode = "FilePicker" => queue' = <<Act("FilePickerConfirm")>>
        /\ app.mode \in {"EnterMagnet", "EnterTorrentDir"} => queue' = <<Act("InputEnter")>>
        /\ app.mode = "Normal" => queue' = <<>>
        /\ C32_Same(app', app)
        /\ chan' = recv(chan).rest
  /\ Taking("FilePickerConfirm") /\ trace = <<>> /\ trace' # trace /\ app.file_picker.some =>
        queue' = <<RunEffect(EffStartDownload(app.file_picker.v.magnet,
                                              app.file_picker.v.output_folder,
                                              included_indices(app.file_picker.v.files)))>>

C39_TranslatedWhenTaken == [][C39_Step]_vars

(* The Enter pressed during StartFilePicker waits while the picker the     *)
(* effect built is open, untouched.                                        *)
C39_Witness ==
  /\ pc = "drain" /\ queue = <<>> /\ Events(chan) = <<Press("Enter")>>
  /\ Len(trace) = 2 /\ trace[2].type = "RunEffect"
  /\ trace[2].effect.kind = "StartFilePicker"
  /\ app.mode = "FilePicker" /\ app.file_picker.some /\ C39_NoOverlay
  /\ app.file_picker.v.files # <<>> /\ C39_Built(app.file_picker.v)

(* The download the waiting Enter started, with the engine's inclusion set. *)
C39_Started ==
  /\ Running("StartDownload") /\ trace[1] = Act("FilePickerConfirm")
  /\ app.file_picker.some /\ C39_Built(app.file_picker.v)
  /\ inflight.only_files = included_indices(app.file_picker.v.files)



(***************************************************************************)
(* C40: whenever StartDownload ends in an error, the engine is not left    *)
(* tracking a torrent that StartDownload added: every failure after the    *)
(* add succeeded (details lookup failure, missing file list, selection     *)
(* mismatch, start failure) removes the torrent just added.                *)
(***************************************************************************)
C40_Added ==
  \E i \in 1..Len(NewCalls) : NewCalls[i].op = "add" /\ NewCalls[i].ok

C40_Failed == Returned("StartDownload") /\ ~ReturnedOk

C40_Step ==
  C40_Failed => TrackedIds(engine') = TrackedIds(engine)

C40_ErrorLeavesNothing == [][C40_Step]_vars

(* The same with the failures of the compensating delete itself left out:  *)
(* whenever no delete call failed, the failed effect left nothing behind.  *)
C40_DeleteHeld ==
  \A i \in 1..Len(NewCalls) : NewCalls[i].op = "delete" => NewCalls[i].ok

C40_LeavesNothingUnlessDeleteFails ==
  [][(C40_Failed /\ C40_DeleteHeld) => TrackedIds(engine') = TrackedIds(engine)]_vars

(* What the code does: of the failures after the add, the selection        *)
(* mismatch alone calls delete; after the other three the torrent added    *)
(* under the fresh id stays tracked.                                       *)
C40_CompensatedStep ==
  (C40_Failed /\ C40_Added /\ engine.next_id \in TrackedIds(engine')
              /\ engine.next_id \notin TrackedIds(engine)) =>
     \/ /\ \E err \in {ErrVerifying, ErrMissingFiles, ErrStarting} : ReturnedErr(err)
        /\ \A i \in 1..Len(NewCalls) : NewCalls[i].op # "delete"
     \/ /\ ReturnedErr(ErrNotHonored)
        /\ \E i \in 1..Len(NewCalls) : NewCalls[i].op = "delete" /\ ~NewCalls[i].ok

C40_OnlyMismatchCompensates == [][C40_CompensatedStep]_vars

(* The torrent a failed StartDownload left behind, listed by a refresh     *)
(* while no delete was ever attempted.                                     *)
C40_LeftBehind ==
  /\ pc = "idle" /\ app.last_error.some
  /\ app.last_error.v \in {ErrVerifying, ErrMissingFiles, ErrStarting}
  /\ engine.next_id - 1 \in TrackedIds(engine)
  /\ engine.next_id - 1 \notin env.restored


====
